---- MODULE Spec2Model ----
(***************************************************************************)
(* A model of voussoirkit.expressionmatch: the tokenizer, the grouping of  *)
(* parentheses, the implied-token normalisation, the operator-precedence   *)
(* restructuring, the construction of the ExpressionTree, its rendering    *)
(* and its evaluation.                                                     *)
(*                                                                         *)
(* Strings are sequences of one-character strings.  A token is a record    *)
(* [kind, w, g]: kind "str" carries the word w, kind "list" carries the    *)
(* nested token list g, and the kinds "PAREN_OPEN" / "PAREN_CLOSE" are the *)
(* two sentinels of the tokenizer.                                         *)
(***************************************************************************)
EXTENDS Integers, Sequences, FiniteSets, TLC

VARIABLES
    pc,          \* position of the caller: which call has completed
    expression,  \* the query string handed to parse / tokenize
    tokens,      \* the token list (returned by tokenize, or handed to parse)
    heap,        \* the ExpressionTree nodes allocated by parse
    root,        \* the node returned by parse (0: none)
    error,       \* the exception raised by parse ("none": returned normally)
    rendered,    \* str(tree)
    text,        \* the object handed to evaluate
    result,      \* the value returned (or the exception raised) by evaluate
    match_function, \* the match_function handed to evaluate
    raised       \* the exception raised by evaluate, with its __cause__ chain

treevars ==
    <<pc, expression, tokens, heap, root, error, rendered, text, result,
      match_function, raised>>

VARIABLE
    scan  \* the loop of tokenize that is being followed step by step: the
          \* `while isinstance(token, (list, tuple))` loop of implied_tokens
          \* with its token, or the while loop of order_operations with its
          \* local variables

scanvars == <<scan>>

VARIABLES
    size,            \* the number of PooledThreads of the pool (0: no pool yet)
    jobs,            \* the Jobs, in the order they were added
    pending_jobs,    \* pool._pending_jobs, the chain of the jobs not yet taken
    jobs_available,  \* pool._jobs_available, an Event
    unpaused_event,  \* pool._unpaused_event, an Event
    closed,          \* pool._closed
    result_queue,    \* pool._result_queue: whether there is one, and its items
    job_manager_lock,\* pool._job_manager_lock: the worker holding it, or 0
    wpc,             \* where each worker thread is
    wjob,            \* the job each worker thread is about to run (0: none)
    gpc,             \* where result_generator is
    gjob,            \* the job result_generator took from the queue (0: none)
    was_paused,      \* result_generator's was_paused
    yielded,         \* the jobs result_generator has yielded so far
    jpc,             \* where the thread calling join is
    add_call         \* the last call of add, add_many or add_generator: the
                     \* method, and the exception it raised ("none": it returned)

poolvars ==
    <<size, jobs, pending_jobs, jobs_available, unpaused_event, closed,
      result_queue, job_manager_lock, wpc, wjob, gpc, gjob, was_paused,
      yielded, jpc, add_call>>

VARIABLES
    transaction_lock,  \* database._worms_transaction_lock: whether it is locked
    transaction_owner, \* database._worms_transaction_owner (0: None)
    savepoints,        \* database.savepoints
    on_commit_queue,   \* database.on_commit_queue
    on_rollback_queue, \* database.on_rollback_queue
    sql,               \* the sqlite connection sql_write: its open transaction,
                       \* the rows written and its stack of savepoints
    tpc,               \* where each thread that uses the database is
    traised,           \* the exception the last call of each thread raised
    frames,            \* the calls of @atomic methods in progress, outermost first
    actions,           \* the queued actions that were run, in the order run
    transactions       \* how many transactions have begun so far

wormsvars ==
    <<transaction_lock, transaction_owner, savepoints, on_commit_queue,
      on_rollback_queue, sql, tpc, traised, frames, actions, transactions>>

VARIABLES
    ratelimiter,  \* the Ratelimiter: its mode, allowance, period, operation_cost,
                  \* balance and last_operation
    now,          \* time.monotonic()
    limited       \* the last call of limit: its cost, the balance it found after
                  \* replenishing, what it returned and how long it slept

ratevars == <<ratelimiter, now, limited>>

vars == <<treevars, scanvars, poolvars, wormsvars, ratevars>>

----------------------------------------------------------------------------
(* Characters and words *)

SPACE == " "
TAB == "\t"
QUOTE == "\""
BACKSLASH == "\\"

AND == <<"A", "N", "D">>
OR == <<"O", "R">>
XOR == <<"X", "O", "R">>
NOT == <<"N", "O", "T">>

BINARY_OPERATORS == {AND, OR, XOR}
UNARY_OPERATORS == {NOT}
PRECEDENCE == <<NOT, AND, XOR, OR>>
OPERATORS == BINARY_OPERATORS \cup UNARY_OPERATORS

StrTok(w) == [kind |-> "str", w |-> w, g |-> <<>>]
ListTok(g) == [kind |-> "list", w |-> <<>>, g |-> g]
PAREN_OPEN == [kind |-> "PAREN_OPEN", w |-> <<>>, g |-> <<>>]
PAREN_CLOSE == [kind |-> "PAREN_CLOSE", w |-> <<>>, g |-> <<>>]

\* str.isspace for the characters of the model's alphabet
isspace(character) == character \in {SPACE, TAB}

\* list[i] with a Python (0-based, negative from the end) index
PyAt(list, i) == IF i < 0 THEN list[Len(list) + i + 1] ELSE list[i + 1]

\* list[start:stop] with Python's clamping of the two bounds
PyBound(list, i) ==
    IF i < 0 THEN (IF Len(list) + i < 0 THEN 0 ELSE Len(list) + i)
    ELSE (IF i > Len(list) THEN Len(list) ELSE i)

PySlice(list, start, stop) ==
    LET s == PyBound(list, start)
        e == PyBound(list, stop)
    IN IF e <= s THEN <<>> ELSE SubSeq(list, s + 1, e)

\* list[start:stop] = [value]
PySliceAssign(list, start, stop, value) ==
    LET s == PyBound(list, start)
        e0 == PyBound(list, stop)
        e == IF e0 < s THEN s ELSE e0
    IN SubSeq(list, 1, s) \o <<value>> \o SubSeq(list, e + 1, Len(list))

----------------------------------------------------------------------------
(* sublist_tokens *)

RECURSIVE sublist_loop(_, _, _)
\* The while loop of sublist_tokens from `index`, with final_tokens so far.
\* Returns [final_tokens, index] as the loop leaves them.
sublist_loop(toks, index, final_tokens) ==
    IF index >= Len(toks) THEN [final_tokens |-> final_tokens, index |-> index]
    ELSE
        LET token == PyAt(toks, index)
            index1 == index + 1
            sub == sublist_loop(toks, index1, <<>>)
            token2 == IF token = PAREN_OPEN THEN ListTok(sub.final_tokens) ELSE token
            index2 == IF token = PAREN_OPEN THEN sub.index ELSE index1
        IN IF token2 = PAREN_CLOSE
           THEN [final_tokens |-> final_tokens, index |-> index2]
           ELSE sublist_loop(toks, index2, Append(final_tokens, token2))

sublist_tokens(toks) == sublist_loop(toks, 0, <<>>).final_tokens

----------------------------------------------------------------------------
(* implied_tokens *)

IsOperatorTok(token) == token.kind = "str" /\ token.w \in OPERATORS

RECURSIVE implied_tokens(_)
RECURSIVE implied_unwrap(_)
\* One pass of the body of `while isinstance(token, (list, tuple))` on a list
\* token: the token it leaves, whether it breaks out of the loop, and
\* skip_this.
implied_while_step(token) ==
    IF Len(token.g) = 0 THEN [break |-> TRUE, skip_this |-> TRUE, token |-> token]
    ELSE IF Len(token.g) = 1
    THEN [break |-> FALSE, skip_this |-> FALSE, token |-> token.g[1]]
    ELSE
        LET previous == token
            next == ListTok(implied_tokens(token.g))
        IN [break |-> (previous = next), skip_this |-> FALSE, token |-> next]

\* The `while isinstance(token, (list, tuple))` loop: returns the token it
\* leaves and whether the token is to be skipped.
implied_unwrap(token) ==
    IF token.kind # "list" THEN [skip_this |-> FALSE, token |-> token]
    ELSE
        LET s == implied_while_step(token)
        IN IF s.break THEN [skip_this |-> s.skip_this, token |-> s.token]
           ELSE implied_unwrap(s.token)

\* a mutation: the implied operator is OR
append_implied_or(final_tokens) == Append(final_tokens, StrTok(OR))

\* final_tokens.append('AND')
append_implied(final_tokens) == Append(final_tokens, StrTok(AND))

\* a mutation: a binary operator with no operand before it is kept
malformed_operator_keeps_leading(st, this_binary) ==
    \/ this_binary /\ (st.has_binary_operator \/ st.has_unary_operator)
    \/ ~this_binary /\ st.has_unary_operator

\* the three `continue` tests on an operator token
malformed_operator(st, this_binary) ==
    \/ this_binary /\ (st.has_binary_operator \/ st.has_unary_operator)
    \/ ~this_binary /\ st.has_unary_operator
    \/ this_binary /\ ~st.has_operand

implied_step(st, token0) ==
    LET u == implied_unwrap(token0)
        token == u.token
    IN IF u.skip_this THEN st
       ELSE IF IsOperatorTok(token) THEN
           LET this_binary == token.w \in BINARY_OPERATORS
               this_unary == ~this_binary
           IN IF malformed_operator(st, this_binary) THEN st
              ELSE [final_tokens |->
                        (IF this_unary /\ st.has_operand
                         THEN append_implied(st.final_tokens)
                         ELSE st.final_tokens) \o <<token>>,
                    has_unary_operator |-> this_unary,
                    has_binary_operator |-> this_binary,
                    has_operand |-> FALSE]
       ELSE [final_tokens |->
                 (IF st.has_operand
                  THEN append_implied(st.final_tokens)
                  ELSE st.final_tokens) \o <<token>>,
             has_unary_operator |-> FALSE,
             has_binary_operator |-> FALSE,
             has_operand |-> TRUE]

RECURSIVE implied_loop(_, _, _)
implied_loop(toks, i, st) ==
    IF i > Len(toks) THEN st ELSE implied_loop(toks, i + 1, implied_step(st, toks[i]))

\* `if len(tokens) == 1 and not isinstance(tokens[0], str): tokens = tokens[0]`
implied_argument(toks0) ==
    IF Len(toks0) = 1 /\ toks0[1].kind # "str" THEN toks0[1].g ELSE toks0

\* a mutation: a trailing operator is not removed
implied_tokens_keeps_trailing(toks0) ==
    LET toks == IF Len(toks0) = 1 /\ toks0[1].kind # "str" THEN toks0[1].g ELSE toks0
    IN implied_loop(toks, 1,
           [final_tokens |-> <<>>, has_operand |-> FALSE,
            has_binary_operator |-> FALSE, has_unary_operator |-> FALSE]).final_tokens

implied_tokens(toks0) ==
    LET toks == implied_argument(toks0)
        st == implied_loop(toks, 1,
                  [final_tokens |-> <<>>, has_operand |-> FALSE,
                   has_binary_operator |-> FALSE, has_unary_operator |-> FALSE])
    IN IF st.has_binary_operator \/ st.has_unary_operator
       THEN SubSeq(st.final_tokens, 1, Len(st.final_tokens) - 1)
       ELSE st.final_tokens

----------------------------------------------------------------------------
(* order_operations *)

None == [some |-> FALSE, v |-> 0]
Some(v) == [some |-> TRUE, v |-> v]

\* PRECEDENCE.index(token), or None on ValueError
PrecedenceIndex(token) ==
    IF token.kind = "str" /\ \E i \in 1..Len(PRECEDENCE) : PRECEDENCE[i] = token.w
    THEN Some((CHOOSE i \in 1..Len(PRECEDENCE) : PRECEDENCE[i] = token.w) - 1)
    ELSE None

RECURSIVE pop_equal(_, _, _)
\* while precedence_stack and precedence_stack[-1] == delete: index -= 1; pop
pop_equal(stack, index, delete) ==
    IF Len(stack) > 0 /\ stack[Len(stack)] = delete
    THEN pop_equal(SubSeq(stack, 1, Len(stack) - 1), index - 1, delete)
    ELSE [precedence_stack |-> stack, index |-> index]

\* one pass of `for x in range(2)`
rewind_once(r) ==
    IF Len(r.precedence_stack) = 0 THEN r
    ELSE pop_equal(r.precedence_stack, r.index, r.precedence_stack[Len(r.precedence_stack)])

\* a mutation: the index is taken back once more than the stack is popped
rewind_too_far(stack, index) ==
    LET r == rewind_once(rewind_once([precedence_stack |-> stack, index |-> index]))
    IN  [r EXCEPT !.index = @ - 1]

rewind(stack, index) ==
    rewind_once(rewind_once([precedence_stack |-> stack, index |-> index]))

\* one pass of the while loop of order_operations, from the read of
\* tokens[index] to the next test of the loop; st holds its local variables
order_step(st) ==
    LET token == PyAt(st.tokens, st.index)
        precedence == PrecedenceIndex(token)
    IN IF ~precedence.some THEN [st EXCEPT !.index = @ + 1]
       ELSE
           LET stack == Append(st.precedence_stack, precedence.v)
               n == Len(stack)
               slice_start ==
                   IF token.w \in UNARY_OPERATORS THEN Some(st.index)
                   ELSE IF n > 1 /\ stack[n] < stack[n - 1] THEN Some(st.index - 1)
                   ELSE st.slice_start
               slice_end ==
                   IF token.w \in UNARY_OPERATORS THEN Some(st.index + 2)
                   ELSE IF n > 1 /\ stack[n] < stack[n - 1] THEN None
                   ELSE IF n > 1 /\ stack[n - 1] < stack[n] THEN Some(st.index)
                   ELSE st.slice_end
           IN IF ~slice_start.some \/ ~slice_end.some
              THEN [tokens |-> st.tokens, index |-> st.index + 1,
                    slice_start |-> slice_start, slice_end |-> slice_end,
                    precedence_stack |-> stack]
              ELSE
                  LET collapsed == PySliceAssign(st.tokens, slice_start.v, slice_end.v,
                                       ListTok(PySlice(st.tokens, slice_start.v, slice_end.v)))
                      r == rewind(stack, st.index)
                  IN [tokens |-> collapsed, index |-> r.index + 1,
                      slice_start |-> None, slice_end |-> None,
                      precedence_stack |-> r.precedence_stack]

RECURSIVE order_loop(_)
\* The while loop of order_operations
order_loop(st) ==
    IF st.index >= Len(st.tokens) THEN st ELSE order_loop(order_step(st))

\* a mutation: the tokens are left in the order written
order_operations_unordered(toks0) == toks0

\* after the while loop: `if slice_start is not None:` and the return
order_return(st) ==
    IF st.slice_start.some
    THEN PySliceAssign(st.tokens, st.slice_start.v, Len(st.tokens),
             ListTok(PySlice(st.tokens, st.slice_start.v, Len(st.tokens))))
    ELSE st.tokens

RECURSIVE order_operations(_)
\* the head of order_operations, `tokens[index] = order_operations(token)` on
\* each list of the argument
order_sublists(toks0) ==
    [i \in 1..Len(toks0) |->
        IF toks0[i].kind = "list"
        THEN ListTok(order_operations(toks0[i].g))
        ELSE toks0[i]]

order_operations(toks0) ==
    LET toks == order_sublists(toks0)
    IN IF Len(toks) < 5 THEN toks
       ELSE order_return(order_loop([tokens |-> toks, index |-> 0,
                                     slice_start |-> None, slice_end |-> None,
                                     precedence_stack |-> <<>>]))

----------------------------------------------------------------------------
(* tokenize *)

tokenize_step(st, character) ==
    IF st.in_escape
    THEN [st EXCEPT !.in_escape = FALSE, !.current_word = Append(@, character)]
    ELSE IF character \in {"(", ")"} /\ ~st.in_quotes THEN
        LET sentinel == IF character = "(" THEN PAREN_OPEN ELSE PAREN_CLOSE
            paren_depth == IF character = "(" THEN st.paren_depth + 1 ELSE st.paren_depth - 1
        IN IF paren_depth >= 0
           THEN [st EXCEPT !.paren_depth = paren_depth,
                           !.tokens = @ \o <<StrTok(st.current_word), sentinel>>,
                           !.current_word = <<>>]
           ELSE [st EXCEPT !.paren_depth = paren_depth]
    ELSE IF character = BACKSLASH THEN [st EXCEPT !.in_escape = TRUE]
    ELSE IF character = QUOTE THEN [st EXCEPT !.in_quotes = ~@]
    ELSE IF isspace(character) /\ ~st.in_quotes
    THEN [st EXCEPT !.tokens = Append(@, StrTok(st.current_word)), !.current_word = <<>>]
    ELSE [st EXCEPT !.current_word = Append(@, character)]

RECURSIVE tokenize_loop(_, _, _)
tokenize_loop(expr, i, st) ==
    IF i > Len(expr) THEN st ELSE tokenize_loop(expr, i + 1, tokenize_step(st, expr[i]))

\* the flat token list, sentinels included, before sublist_tokens
tokenize_flat(expr) ==
    LET st == tokenize_loop(expr, 1,
                  [current_word |-> <<>>, in_escape |-> FALSE, in_quotes |-> FALSE,
                   paren_depth |-> 0, tokens |-> <<>>])
        all == Append(st.tokens, StrTok(st.current_word))
    IN SelectSeq(all, LAMBDA w : w # StrTok(<<>>))

tokenize(expr) == order_operations(implied_tokens(sublist_tokens(tokenize_flat(expr))))

----------------------------------------------------------------------------
(* ExpressionTree: nodes live in a heap, a sequence of records               *)
(* [token, children, parent]; a node is its index, and parent 0 is None.    *)

NewNode(token) == [token |-> token, children |-> <<>>, parent |-> 0]

RECURSIVE rootmost(_, _)
rootmost(h, current) ==
    IF h[current].parent # 0 THEN rootmost(h, h[current].parent) ELSE current

Raise(message) == [error |-> message, heap |-> <<>>, current |-> 0]

\* a mutation: the children of new keep their parent
reparent_none(h, kids, current) == h

\* `child.parent = current` for every child of new
Reparent(h, kids, current) ==
    [n \in 1..Len(h) |->
        IF \E k \in 1..Len(kids) : kids[k] = n THEN [h[n] EXCEPT !.parent = current] ELSE h[n]]

\* a.children.append(b); b.parent = a
Adopt(h, a, b) == [h EXCEPT ![a].children = Append(@, b), ![b].parent = a]

\* parse, `elif current.token not in OPERATORS`
parse_step_operand(h, current, new) ==
    LET nw == h[new]
    IN IF nw.token \in BINARY_OPERATORS THEN
           IF Len(nw.children) = 0
           THEN [error |-> "none", heap |-> Adopt(h, new, current), current |-> new]
           ELSE [error |-> "none", heap |-> h, current |-> current]
       ELSE Raise("Expected binary operator")

\* a mutation: an operator of the same kind is nested, not merged
binary_meets_binary_nested(h, current, new) ==
    IF Len(h[new].children) = 0
    THEN [error |-> "none", heap |-> Adopt(h, new, current), current |-> new]
    ELSE [error |-> "none", heap |-> Adopt(h, current, new), current |-> current]

\* parse, current and new both binary operators
binary_meets_binary(h, current, new) ==
    LET cur == h[current]
        nw == h[new]
    IN IF nw.token = cur.token
       THEN [error |-> "none",
             heap |-> [Reparent(h, nw.children, current)
                          EXCEPT ![current].children = @ \o nw.children],
             current |-> current]
       ELSE IF Len(nw.children) = 0
       THEN [error |-> "none", heap |-> Adopt(h, new, current), current |-> new]
       ELSE [error |-> "none", heap |-> Adopt(h, current, new), current |-> current]

\* a mutation: current does not descend to the NOT node it received
binary_meets_unary_stays(h, current, new) ==
    [error |-> "none", heap |-> Adopt(h, current, new), current |-> current]

\* parse, current a binary operator and new a unary operator
binary_meets_unary(h, current, new) ==
    IF Len(h[new].children) = 0
    THEN [error |-> "none", heap |-> Adopt(h, current, new), current |-> new]
    ELSE [error |-> "none", heap |-> Adopt(h, current, new), current |-> current]

\* parse, current a binary operator and new an operand
binary_meets_operand(h, current, new) ==
    IF Len(h[current].children) > 0
    THEN [error |-> "none", heap |-> Adopt(h, current, new), current |-> current]
    ELSE Raise("Expected current children > 0")

\* parse, `elif current.token in BINARY_OPERATORS`
parse_step_binary(h, current, new) ==
    IF h[new].token \in BINARY_OPERATORS THEN binary_meets_binary(h, current, new)
    ELSE IF h[new].token \in UNARY_OPERATORS THEN binary_meets_unary(h, current, new)
    ELSE binary_meets_operand(h, current, new)

\* parse, `elif current.token in UNARY_OPERATORS`
parse_step_unary(h, current, new) ==
    LET cur == h[current]
        nw == h[new]
    IN IF Len(cur.children) = 0
       THEN [error |-> "none", heap |-> Adopt(h, current, new),
             current |-> IF cur.parent # 0 THEN cur.parent ELSE current]
       ELSE IF nw.token \in BINARY_OPERATORS THEN
           IF Len(nw.children) = 0
           THEN [error |-> "none", heap |-> Adopt(h, new, current), current |-> new]
           ELSE [error |-> "none", heap |-> Adopt(h, current, new),
                 current |-> IF cur.parent # 0 THEN cur.parent ELSE current]
       ELSE Raise("Expected new to be my operand or parent binary")

\* The body of the loop of parse for one token, once `new` has been built.
parse_step(h, current, new) ==
    IF h[current].token \notin OPERATORS THEN parse_step_operand(h, current, new)
    ELSE IF h[current].token \in BINARY_OPERATORS THEN parse_step_binary(h, current, new)
    ELSE parse_step_unary(h, current, new)

RECURSIVE parse_list(_, _)
RECURSIVE parse_loop(_, _, _, _)

\* cls.parse(token) for a list, cls(token=token) otherwise
parse_token(h, token) ==
    IF token.kind = "list" THEN parse_list(h, token.g)
    ELSE [error |-> "none", heap |-> Append(h, NewNode(token.w)), current |-> Len(h) + 1]

\* `for token in tokens[1:]`
parse_loop(h, current, toks, i) ==
    IF i > Len(toks) THEN [error |-> "none", heap |-> h, current |-> current]
    ELSE
        LET new == parse_token(h, toks[i])
        IN IF new.error # "none" THEN new
           ELSE
               LET step == parse_step(new.heap, current, new.current)
               IN IF step.error # "none" THEN step
                  ELSE parse_loop(step.heap, step.current, toks, i + 1)

\* ExpressionTree.parse on a list of tokens, allocating in the heap h.
\* Returns the heap and the rootmost node, or the exception raised.
parse_list(h, toks) ==
    IF toks = <<>> THEN Raise("NoTokens")
    ELSE
        LET first == parse_token(h, toks[1])
        IN IF first.error # "none" THEN first
           ELSE
               LET r == parse_loop(first.heap, first.current, toks, 2)
               IN IF r.error # "none" THEN r
                  ELSE [r EXCEPT !.current = rootmost(r.heap, r.current)]

\* ExpressionTree.parse on a string
parse(expr) == parse_list(<<>>, tokenize(expr))

----------------------------------------------------------------------------
(* ExpressionTree.__str__ *)

Escape(character) ==
    IF character \in {BACKSLASH, QUOTE, "(", ")"} THEN <<BACKSLASH, character>>
    ELSE <<character>>

RECURSIVE EscapeAll(_)
EscapeAll(t) == IF t = <<>> THEN <<>> ELSE Escape(Head(t)) \o EscapeAll(Tail(t))

LeafStr(token) ==
    LET t == EscapeAll(token)
    IN IF \E i \in 1..Len(t) : t[i] = SPACE THEN <<QUOTE>> \o t \o <<QUOTE>> ELSE t

RECURSIVE tree_str(_, _)
RECURSIVE JoinChildren(_, _, _)
\* s.join(children), each operator child in parentheses
JoinChildren(h, node, k) ==
    LET child == h[node].children[k]
        childstring == IF h[child].token \in OPERATORS
                       THEN <<"(">> \o tree_str(h, child) \o <<")">>
                       ELSE tree_str(h, child)
    IN IF k = Len(h[node].children) THEN childstring
       ELSE childstring \o <<SPACE>> \o h[node].token \o <<SPACE>> \o JoinChildren(h, node, k + 1)

tree_str(h, node) ==
    LET self_token == h[node].token
    IN IF self_token \notin OPERATORS THEN LeafStr(self_token)
       ELSE IF Len(h[node].children) = 1 THEN
           LET child == h[node].children[1]
           IN IF h[child].token \in OPERATORS
              THEN self_token \o <<"(">> \o tree_str(h, child) \o <<")">>
              ELSE self_token \o <<SPACE>> \o tree_str(h, child)
       ELSE IF Len(h[node].children) = 0 THEN <<>>
       ELSE JoinChildren(h, node, 1)

----------------------------------------------------------------------------
(* evaluate *)

\* str.__contains__ on two strings
Contains(haystack, needle) ==
    \E i \in 0..(Len(haystack) - Len(needle)) :
        \A j \in 1..Len(needle) : haystack[i + j] = needle[j]

\* an object handed to evaluate that is not a string
NON_STRING == <<"<object>">>

\* match_function=None, or a function of the caller's
MATCH_FUNCTIONS == {"None", "custom"}

\* The outcome of a call is a sequence: <<"True">> or <<"False">> when it
\* returns, and when it raises the exception followed by its __cause__
\* chain, e.g. <<"Exception", "TypeError">>.
Returned(b) == IF b THEN <<"True">> ELSE <<"False">>

IsException(value) == value \notin {<<"True">>, <<"False">>}

\* DEFAULT_MATCH_FUNCTION = str.__contains__ raises TypeError when the
\* object is not a string
DEFAULT_MATCH_FUNCTION(txt, token) ==
    IF txt = NON_STRING THEN <<"TypeError">> ELSE Returned(Contains(txt, token))

\* a match function of the caller's, written for strings:
\* lambda text, token: token in text.lower()
CUSTOM_MATCH_FUNCTION(txt, token) ==
    IF txt = NON_STRING THEN <<"AttributeError">> ELSE Returned(Contains(txt, token))

match(mf, txt, token) ==
    IF mf = "custom" THEN CUSTOM_MATCH_FUNCTION(txt, token)
    ELSE DEFAULT_MATCH_FUNCTION(txt, token)

RECURSIVE evaluate_with(_, _, _, _)
RECURSIVE all_values(_, _, _, _, _)
RECURSIVE any_values(_, _, _, _, _)
RECURSIVE list_values(_, _, _, _, _)

\* func_and: all() stops reading the generator at the first False
all_values(h, kids, k, txt, mf) ==
    IF k > Len(kids) THEN <<"True">>
    ELSE LET v == evaluate_with(h, kids[k], txt, mf)
         IN IF v = <<"True">> THEN all_values(h, kids, k + 1, txt, mf) ELSE v

\* func_or: any() stops reading the generator at the first True
any_values(h, kids, k, txt, mf) ==
    IF k > Len(kids) THEN <<"False">>
    ELSE LET v == evaluate_with(h, kids[k], txt, mf)
         IN IF v = <<"False">> THEN any_values(h, kids, k + 1, txt, mf) ELSE v

\* list(values): the sequence of values, or the first exception alone
list_values(h, kids, k, txt, mf) ==
    IF k > Len(kids) THEN <<>>
    ELSE LET v == evaluate_with(h, kids[k], txt, mf)
             rest == list_values(h, kids, k + 1, txt, mf)
         IN IF IsException(v) THEN <<v>>
            ELSE IF rest # <<>> /\ IsException(rest[Len(rest)]) THEN <<rest[Len(rest)]>>
            ELSE <<v>> \o rest

func_and(h, kids, txt, mf) == all_values(h, kids, 1, txt, mf)

func_or(h, kids, txt, mf) == any_values(h, kids, 1, txt, mf)

\* XOR read as "exactly one"
func_xor_exactly_one(h, kids, txt, mf) ==
    LET values == list_values(h, kids, 1, txt, mf)
    IN IF values # <<>> /\ IsException(values[Len(values)]) THEN values[Len(values)]
       ELSE Returned(Cardinality({k \in 1..Len(values) : values[k] = <<"True">>}) = 1)

func_xor(h, kids, txt, mf) ==
    LET values == list_values(h, kids, 1, txt, mf)
    IN IF values # <<>> /\ IsException(values[Len(values)]) THEN values[Len(values)]
       ELSE Returned(Cardinality({k \in 1..Len(values) : values[k] = <<"True">>}) % 2 = 1)

func_not(h, kids, txt, mf) ==
    LET value == list_values(h, kids, 1, txt, mf)
    IN IF value # <<>> /\ IsException(value[Len(value)]) THEN value[Len(value)]
       ELSE IF Len(value) # 1 THEN <<"ValueError">>
       ELSE Returned(value[1] # <<"True">>)

\* ExpressionTree._evaluate: the children are read through child.evaluate
evaluate_inner(h, node, txt, mf) ==
    LET token == h[node].token
        kids == h[node].children
    IN IF token \notin OPERATORS THEN match(mf, txt, token)
       ELSE IF token = AND THEN func_and(h, kids, txt, mf)
       ELSE IF token = OR THEN func_or(h, kids, txt, mf)
       ELSE IF token = XOR THEN func_xor(h, kids, txt, mf)
       ELSE func_not(h, kids, txt, mf)

\* `raise override from e`: the guidance Exception, its __cause__ being e
\* with the chain e already has
raise_from(e) == <<"Exception">> \o e

\* the handler rethrows e itself
raise_same(e) == e

\* ExpressionTree.evaluate(text, match_function): with the default match
\* function an exception is re-raised as the guidance Exception from it,
\* with a function of the caller's it is re-raised as it is
evaluate_with(h, node, txt, mf) ==
    LET value == evaluate_inner(h, node, txt, mf)
    IN IF ~IsException(value) THEN value
       ELSE IF mf = "None" THEN raise_from(value)
       ELSE raise_same(value)

\* ExpressionTree.evaluate(text): "True", "False", or the type of the
\* exception that reaches the caller
evaluate(h, node, txt) == evaluate_with(h, node, txt, "None")[1]

----------------------------------------------------------------------------
(* map and prune *)

\* the token None
TOKEN_NONE == <<"<None>">>

\* ExpressionTree.map(function), for the function that returns None for the
\* operands of `dropped` and every other operand as it is: walk_leaves
\* visits the nodes under `node` whose token is not an operator
map(h, node, dropped) ==
    LET RECURSIVE walk(_)
        walk(n) == {n} \cup UNION {walk(h[n].children[k]) : k \in 1..Len(h[n].children)}
        leaves == {n \in walk(node) : h[n].token \notin OPERATORS}
    IN [n \in 1..Len(h) |->
           IF n \in leaves /\ h[n].token \in dropped
           THEN [h[n] EXCEPT !.token = TOKEN_NONE] ELSE h[n]]

\* list.remove(x): without the first occurrence of x
RECURSIVE list_remove(_, _)
list_remove(list, x) ==
    IF list = <<>> THEN <<>>
    ELSE IF Head(list) = x THEN Tail(list)
    ELSE <<Head(list)>> \o list_remove(Tail(list), x)

InList(list, x) == \E k \in 1..Len(list) : list[k] = x

RECURSIVE prune(_, _)
RECURSIVE prune_children(_, _, _)

\* `for child in self.children: child.prune()`: the list iterator keeps an
\* index into the list, which a child that removes itself shortens under it
prune_children(st, node, index) ==
    IF st.error # "none" \/ index >= Len(st.heap[node].children) THEN st
    ELSE prune_children(prune(st, st.heap[node].children[index + 1]), node, index + 1)

\* `self.token = None` and `self.parent.children.remove(self)`
prune_self(st, node) ==
    LET h == [st.heap EXCEPT ![node].token = TOKEN_NONE]
        parent == h[node].parent
    IN IF parent = 0 THEN [heap |-> h, error |-> "none"]
       ELSE IF ~InList(h[parent].children, node) THEN [heap |-> h, error |-> "ValueError"]
       ELSE [heap |-> [h EXCEPT ![parent].children = list_remove(@, node)],
             error |-> "none"]

\* ExpressionTree.prune on the node `node`; st is [heap, error]
prune(st, node) ==
    LET h == st.heap
        kept == SelectSeq(h[node].children, LAMBDA child : h[child].token # TOKEN_NONE)
        visited == prune_children([st EXCEPT !.heap[node].children = kept], node, 0)
    IN IF visited.error # "none" THEN visited
       ELSE IF visited.heap[node].token \in OPERATORS
               /\ Len(visited.heap[node].children) = 0
       THEN prune_self(visited, node)
       ELSE visited

----------------------------------------------------------------------------
(* threadpool: ThreadPool, PooledThread, Job *)

MaxWorkers == 2
MaxJobs == 2
MaxClosedWorkers == 1

NO_MORE_JOBS == 0

\* pool._result_queue is None
NoQueue == [exists |-> FALSE, items |-> <<>>]

\* queue.Queue()
NewQueue == [exists |-> TRUE, items |-> <<>>]

\* a queue that hands out the newest item first
put_first(queue, item) == [queue EXCEPT !.items = <<item>> \o @]

\* Queue.put(item), into a queue without bound
put(queue, item) == [queue EXCEPT !.items = Append(@, item)]

\* `if self._result_queue is not None: self._result_queue.put(item)`
put_if_queue(queue, item) == IF queue.exists THEN put(queue, item) ELSE queue

\* when a job is added: before result_generator is called, during its loop
\* (the loop condition not being half evaluated already), or after
Phase ==
    IF gpc = "idle" THEN "before"
    ELSE IF gpc \in {"while", "get", "join"} THEN "during"
    ELSE "after"

\* Job.__init__: `via` is the method that added the job, `asked` tells
\* whether its caller passed a callback, `callback` whether the Job was
\* given one, `added` when it was added
Job(via, asked, callback) ==
    [via |-> via, status |-> "PENDING", asked |-> asked, callback |-> callback,
     called |-> 0, done |-> FALSE, added |-> Phase]

RECURSIVE Batch(_, _)
Batch(job, n) == IF n = 0 THEN <<>> ELSE <<job>> \o Batch(job, n - 1)

\* the ids the next n jobs get, in the order added
NewIds(n) == [k \in 1..n |-> Len(jobs) + k]

\* Event.set() of pool._jobs_available: the threads blocked in wait() return
set_jobs_available(positions) ==
    [w \in 1..Len(positions) |->
        IF positions[w] = "blocked_jobs" THEN "wait_unpaused" ELSE positions[w]]

\* Event.set() of pool._unpaused_event: the threads blocked in wait() return
set_unpaused(positions) ==
    [w \in 1..Len(positions) |->
        IF positions[w] = "blocked_unpaused" THEN "get_next_job" ELSE positions[w]]

\* ThreadPool(size, paused=True): the threads are started, and each one goes
\* to wait for jobs
ThreadPool(n) ==
    /\ size = 0
    /\ size' = n
    /\ wpc' = [w \in 1..n |-> "wait_jobs"]
    /\ wjob' = [w \in 1..n |-> 0]
    /\ UNCHANGED <<jobs, pending_jobs, jobs_available, unpaused_event, closed,
                   result_queue, job_manager_lock, gpc, gjob, was_paused, yielded, jpc>>
    /\ UNCHANGED <<add_call, treevars, scanvars, wormsvars, ratevars>>

\* a pool whose assert_not_closed never raises
assert_nothing == "none"

\* ThreadPool.assert_not_closed: the exception it raises ("none": it returns)
assert_not_closed == IF closed THEN "PoolClosed" ELSE "none"

\* the call ends with the exception, nothing else having been done
add_raise(via, exception) ==
    /\ add_call' = [via |-> via, raised |-> exception]
    /\ UNCHANGED <<size, jobs, pending_jobs, jobs_available, unpaused_event, closed,
                   result_queue, job_manager_lock, wpc, wjob, gpc, gjob, was_paused,
                   yielded, jpc>>
    /\ UNCHANGED <<treevars, scanvars, wormsvars, ratevars>>

\* the jobs are appended to the chain, then the event is set
add_jobs(via, new) ==
    /\ Len(jobs) + Len(new) <= MaxJobs
    /\ jobs' = jobs \o new
    /\ pending_jobs' = pending_jobs \o NewIds(Len(new))
    /\ jobs_available' = TRUE
    /\ wpc' = set_jobs_available(wpc)
    /\ add_call' = [via |-> via, raised |-> "none"]
    /\ UNCHANGED <<size, unpaused_event, closed, result_queue, job_manager_lock, wjob,
                   gpc, gjob, was_paused, yielded, jpc>>
    /\ UNCHANGED <<treevars, scanvars, wormsvars, ratevars>>

\* ThreadPool.add(function, callback=...): the Job is made without the
\* callback argument
Add(asked) ==
    /\ size > 0
    /\ IF assert_not_closed # "none"
       THEN add_raise("add", assert_not_closed)
       ELSE add_jobs("add", <<Job("add", asked, FALSE)>>)

\* ThreadPool.add_many(kwargss), each kwargs with or without a callback
AddMany(asked, n) ==
    /\ size > 0
    /\ IF assert_not_closed # "none"
       THEN add_raise("add_many", assert_not_closed)
       ELSE IF n = 0
       THEN add_raise("add_many", "ValueError")
       ELSE add_jobs("add_many", Batch(Job("add_many", asked, asked), n))

\* ThreadPool.add_generator(kwargs_gen)
AddGenerator(asked, n) ==
    /\ size > 0
    /\ IF assert_not_closed # "none"
       THEN add_raise("add_generator", assert_not_closed)
       ELSE add_jobs("add_generator", Batch(Job("add_generator", asked, asked), n))

\* ThreadPool.start()
Start ==
    /\ size > 0
    /\ ~unpaused_event
    /\ unpaused_event' = TRUE
    /\ wpc' = set_unpaused(wpc)
    /\ UNCHANGED <<size, jobs, pending_jobs, jobs_available, closed, result_queue,
                   job_manager_lock, wjob, gpc, gjob, was_paused, yielded, jpc>>
    /\ UNCHANGED <<add_call, treevars, scanvars, wormsvars, ratevars>>

(* PooledThread.start, the loop of a worker thread w *)

\* self.pool._jobs_available.wait(): returns at once if the event is set,
\* blocks until the next set() otherwise
WaitJobsAvailable(w) ==
    /\ wpc[w] = "wait_jobs"
    /\ wpc' = [wpc EXCEPT ![w] = IF jobs_available THEN "wait_unpaused" ELSE "blocked_jobs"]
    /\ UNCHANGED <<size, jobs, pending_jobs, jobs_available, unpaused_event, closed,
                   result_queue, job_manager_lock, wjob, gpc, gjob, was_paused, yielded, jpc>>
    /\ UNCHANGED <<add_call, treevars, scanvars, wormsvars, ratevars>>

\* self.pool._unpaused_event.wait()
WaitUnpaused(w) ==
    /\ wpc[w] = "wait_unpaused"
    /\ wpc' = [wpc EXCEPT ![w] = IF unpaused_event THEN "get_next_job" ELSE "blocked_unpaused"]
    /\ UNCHANGED <<size, jobs, pending_jobs, jobs_available, unpaused_event, closed,
                   result_queue, job_manager_lock, wjob, gpc, gjob, was_paused, yielded, jpc>>
    /\ UNCHANGED <<add_call, treevars, scanvars, wormsvars, ratevars>>

\* get_next_job, `with self._job_manager_lock: job = next(self._pending_jobs)`
\* when the chain has a job: it is put on the result queue if there is one,
\* and returned
GetNextJob(w) ==
    /\ wpc[w] = "get_next_job"
    /\ job_manager_lock = 0
    /\ pending_jobs # <<>>
    /\ wjob' = [wjob EXCEPT ![w] = Head(pending_jobs)]
    /\ pending_jobs' = Tail(pending_jobs)
    /\ result_queue' = put_if_queue(result_queue, Head(pending_jobs))
    /\ wpc' = [wpc EXCEPT ![w] = "run"]
    /\ UNCHANGED <<size, jobs, jobs_available, unpaused_event, closed, job_manager_lock,
                   gpc, gjob, was_paused, yielded, jpc>>
    /\ UNCHANGED <<add_call, treevars, scanvars, wormsvars, ratevars>>

\* get_next_job, when next raises StopIteration, and `if not self.closed:`;
\* the lock stays held
StopIteration(w) ==
    /\ wpc[w] = "get_next_job"
    /\ job_manager_lock = 0
    /\ pending_jobs = <<>>
    /\ job_manager_lock' = w
    /\ wpc' = [wpc EXCEPT ![w] = IF closed THEN "put_no_more_jobs" ELSE "clear"]
    /\ UNCHANGED <<size, jobs, pending_jobs, jobs_available, unpaused_event, closed,
                   result_queue, wjob, gpc, gjob, was_paused, yielded, jpc>>
    /\ UNCHANGED <<add_call, treevars, scanvars, wormsvars, ratevars>>

\* get_next_job, `self._jobs_available.clear()`
ClearJobsAvailable(w) ==
    /\ wpc[w] = "clear"
    /\ jobs_available' = FALSE
    /\ wpc' = [wpc EXCEPT ![w] = "put_no_more_jobs"]
    /\ UNCHANGED <<size, jobs, pending_jobs, unpaused_event, closed, result_queue,
                   job_manager_lock, wjob, gpc, gjob, was_paused, yielded, jpc>>
    /\ UNCHANGED <<add_call, treevars, scanvars, wormsvars, ratevars>>

\* get_next_job, the end of the StopIteration branch: NO_MORE_JOBS is put on
\* the result queue if there is one, the lock is released, and back in
\* PooledThread.start `if status is NO_MORE_JOBS and self.pool.closed: break`
ReturnNoMoreJobs(w) ==
    /\ wpc[w] = "put_no_more_jobs"
    /\ result_queue' = put_if_queue(result_queue, NO_MORE_JOBS)
    /\ job_manager_lock' = 0
    /\ wpc' = [wpc EXCEPT ![w] = IF closed THEN "exited" ELSE "wait_jobs"]
    /\ UNCHANGED <<size, jobs, pending_jobs, jobs_available, unpaused_event, closed,
                   wjob, gpc, gjob, was_paused, yielded, jpc>>
    /\ UNCHANGED <<add_call, treevars, scanvars, wormsvars, ratevars>>

\* Job.run: the function returns (FINISHED) or raises (RAISED), the callback
\* is called if the job has one, and the done event is set; the status
\* _run_once returns is not NO_MORE_JOBS, so the loop goes round
RunJob(w, status) ==
    /\ wpc[w] = "run"
    /\ LET job == jobs[wjob[w]]
       IN jobs' = [jobs EXCEPT ![wjob[w]] =
                      [job EXCEPT !.status = status,
                                  !.called = IF job.callback THEN @ + 1 ELSE @,
                                  !.done = TRUE]]
    /\ wjob' = [wjob EXCEPT ![w] = 0]
    /\ wpc' = [wpc EXCEPT ![w] = "wait_jobs"]
    /\ UNCHANGED <<size, pending_jobs, jobs_available, unpaused_event, closed,
                   result_queue, job_manager_lock, gpc, gjob, was_paused, yielded, jpc>>
    /\ UNCHANGED <<add_call, treevars, scanvars, wormsvars, ratevars>>

Worker(w) ==
    /\ w <= size
    /\ \/ WaitJobsAvailable(w)
       \/ WaitUnpaused(w)
       \/ GetNextJob(w)
       \/ StopIteration(w)
       \/ ClearJobsAvailable(w)
       \/ ReturnNoMoreJobs(w)
       \/ \E status \in {"FINISHED", "RAISED"} : RunJob(w, status)

(* ThreadPool.result_generator, run by the thread that consumes it *)

\* `self._result_queue = queue.Queue()`, `was_paused = self.paused` and
\* `self.start()` (when there is a result queue already, TypeError is
\* raised instead)
ResultGenerator ==
    /\ size > 0
    /\ gpc = "idle"
    /\ ~result_queue.exists
    /\ result_queue' = NewQueue
    /\ was_paused' = ~unpaused_event
    /\ unpaused_event' = TRUE
    /\ wpc' = set_unpaused(wpc)
    /\ gpc' = "while"
    /\ UNCHANGED <<size, jobs, pending_jobs, jobs_available, closed,
                   job_manager_lock, wjob, gjob, yielded, jpc>>
    /\ UNCHANGED <<add_call, treevars, scanvars, wormsvars, ratevars>>

\* `while self._jobs_available.is_set() or ...`: the first operand
WhileJobsAvailable ==
    /\ gpc = "while"
    /\ gpc' = IF jobs_available THEN "get" ELSE "or_not_empty"
    /\ UNCHANGED <<size, jobs, pending_jobs, jobs_available, unpaused_event, closed,
                   result_queue, job_manager_lock, wpc, wjob, gjob, was_paused, yielded, jpc>>
    /\ UNCHANGED <<add_call, treevars, scanvars, wormsvars, ratevars>>

\* `... or not self._result_queue.empty()`: the second operand
WhileNotEmpty ==
    /\ gpc = "or_not_empty"
    /\ gpc' = IF result_queue.items # <<>> THEN "get" ELSE "finish"
    /\ UNCHANGED <<size, jobs, pending_jobs, jobs_available, unpaused_event, closed,
                   result_queue, job_manager_lock, wpc, wjob, gjob, was_paused, yielded, jpc>>
    /\ UNCHANGED <<add_call, treevars, scanvars, wormsvars, ratevars>>

\* `job = self._result_queue.get()`, which blocks while the queue is empty,
\* and `if job is NO_MORE_JOBS: break`
QueueGet ==
    /\ gpc = "get"
    /\ result_queue.items # <<>>
    /\ gjob' = (IF Head(result_queue.items) = NO_MORE_JOBS THEN 0 ELSE Head(result_queue.items))
    /\ result_queue' = [result_queue EXCEPT !.items = Tail(@)]
    /\ gpc' = IF Head(result_queue.items) = NO_MORE_JOBS THEN "finish" ELSE "join"
    /\ UNCHANGED <<size, jobs, pending_jobs, jobs_available, unpaused_event, closed,
                   job_manager_lock, wpc, wjob, was_paused, yielded, jpc>>
    /\ UNCHANGED <<add_call, treevars, scanvars, wormsvars, ratevars>>

\* `job.join()`, which blocks until the done event of the job is set, and
\* `yield job`
Yield ==
    /\ gpc = "join"
    /\ jobs[gjob].done
    /\ yielded' = Append(yielded, gjob)
    /\ gjob' = 0
    /\ gpc' = "while"
    /\ UNCHANGED <<size, jobs, pending_jobs, jobs_available, unpaused_event, closed,
                   result_queue, job_manager_lock, wpc, wjob, was_paused, jpc>>
    /\ UNCHANGED <<add_call, treevars, scanvars, wormsvars, ratevars>>

\* after the loop: `self._result_queue = None` and
\* `if was_paused: self.pause()`
GeneratorReturn ==
    /\ gpc = "finish"
    /\ result_queue' = NoQueue
    /\ unpaused_event' = IF was_paused THEN FALSE ELSE unpaused_event
    /\ gpc' = "returned"
    /\ UNCHANGED <<size, jobs, pending_jobs, jobs_available, closed, job_manager_lock,
                   wpc, wjob, gjob, was_paused, yielded, jpc>>
    /\ UNCHANGED <<add_call, treevars, scanvars, wormsvars, ratevars>>

(* ThreadPool.join, run by the thread that calls it *)

\* `self._closed = True`
JoinClose ==
    /\ size > 0
    /\ jpc = "idle"
    /\ gpc \in {"idle", "returned"}
    /\ closed' = TRUE
    /\ jpc' = "set"
    /\ UNCHANGED <<size, jobs, pending_jobs, jobs_available, unpaused_event,
                   result_queue, job_manager_lock, wpc, wjob, gpc, gjob, was_paused, yielded>>
    /\ UNCHANGED <<add_call, treevars, scanvars, wormsvars, ratevars>>

\* `self._jobs_available.set()`
JoinSet ==
    /\ jpc = "set"
    /\ jobs_available' = TRUE
    /\ wpc' = set_jobs_available(wpc)
    /\ jpc' = "start"
    /\ UNCHANGED <<size, jobs, pending_jobs, unpaused_event, closed, result_queue,
                   job_manager_lock, wjob, gpc, gjob, was_paused, yielded>>
    /\ UNCHANGED <<add_call, treevars, scanvars, wormsvars, ratevars>>

\* `self.start()`
JoinStart ==
    /\ jpc = "start"
    /\ unpaused_event' = TRUE
    /\ wpc' = set_unpaused(wpc)
    /\ jpc' = "threads"
    /\ UNCHANGED <<size, jobs, pending_jobs, jobs_available, closed, result_queue,
                   job_manager_lock, wjob, gpc, gjob, was_paused, yielded>>
    /\ UNCHANGED <<add_call, treevars, scanvars, wormsvars, ratevars>>

\* `for thread in self._threads: thread.join()`: returns once every thread
\* has left its loop
JoinThreads ==
    /\ jpc = "threads"
    /\ \A w \in 1..size : wpc[w] = "exited"
    /\ jpc' = "returned"
    /\ UNCHANGED <<size, jobs, pending_jobs, jobs_available, unpaused_event, closed,
                   result_queue, job_manager_lock, wpc, wjob, gpc, gjob, was_paused, yielded>>
    /\ UNCHANGED <<add_call, treevars, scanvars, wormsvars, ratevars>>

Join ==
    \/ JoinSet
    \/ JoinStart
    \/ JoinThreads

----------------------------------------------------------------------------
(* voussoirkit.ratelimiter *)

MaxAllowance == 2
MaxPeriod == 2
MaxCost == 2
MaxTime == 3

NoRatelimiter ==
    [mode |-> "none", allowance |-> 0, period |-> 0, operation_cost |-> 0,
     starting_balance |-> 0, balance |-> 0, last_operation |-> 0]

NotLimited ==
    [called |-> FALSE, cost |-> 0, replenished |-> 0, success |-> FALSE,
     sleep_needed |-> 0]

(* Quantities are kept whole: a time is counted in units of 1/allowance     *)
(* second and a balance in units of 1/period.  In these units the gain      *)
(* time_diff * gain_rate of a time_diff is time_diff itself, the sleep      *)
(* abs(balance) / gain_rate is abs(balance), and an allowance or a cost x   *)
(* is x * period.                                                           *)
InBalanceUnits(rl, x) == x * rl.period

Min(a, b) == IF a <= b THEN a ELSE b
Max(a, b) == IF a >= b THEN a ELSE b
Abs(a) == IF a >= 0 THEN a ELSE 0 - a

\* the costs handed to limit: the caller may pass any number
Costs == (0 - 1)..MaxCost

\* the check `positive` of __init__ (a ValueError when it fails)
positive(x) == x > 0

\* Ratelimiter(allowance, mode=, operation_cost=, period=, starting_balance=);
\* `given` tells whether a starting_balance was passed
Ratelimiter(allowance, mode, operation_cost, period, starting_balance, given) ==
    /\ ratelimiter.mode = "none"
    /\ mode \in {"sleep", "reject"}
    /\ positive(allowance)
    /\ positive(period)
    /\ positive(operation_cost)
    /\ given => positive(starting_balance)
    /\ LET made == [mode |-> mode, allowance |-> allowance, period |-> period,
                    operation_cost |-> operation_cost, starting_balance |-> 0,
                    balance |-> 0, last_operation |-> now]
           balance == IF given THEN InBalanceUnits(made, starting_balance)
                      ELSE InBalanceUnits(made, operation_cost)
       IN  ratelimiter' = [made EXCEPT !.balance = balance, !.starting_balance = balance]
    /\ UNCHANGED <<now, limited>>
    /\ UNCHANGED <<treevars, scanvars, poolvars, wormsvars>>

\* Ratelimiter._limit(cost) at the time t: the new balance and last_operation,
\* and the pair (success, sleep_needed) returned
limit_inner(rl, t, cost) ==
    LET time_diff == t - rl.last_operation
        replenished == Min(rl.balance + time_diff, InBalanceUnits(rl, rl.allowance))
    IN  IF rl.mode = "reject" /\ replenished < InBalanceUnits(rl, cost)
        THEN [balance |-> replenished, last_operation |-> t, replenished |-> replenished,
              success |-> FALSE, sleep_needed |-> 0]
        ELSE LET balance == replenished - InBalanceUnits(rl, cost)
             IN  [balance |-> balance, last_operation |-> t, replenished |-> replenished,
                  success |-> TRUE,
                  sleep_needed |-> IF balance >= 0 THEN 0 ELSE Abs(balance)]

\* Ratelimiter.limit(cost): `given` tells whether a cost was passed; the
\* call sleeps for sleep_needed before it returns
Limit(cost, given) ==
    /\ ratelimiter.mode # "none"
    /\ LET c == IF given THEN cost ELSE ratelimiter.operation_cost
           r == limit_inner(ratelimiter, now, c)
       IN  /\ now + r.sleep_needed <= MaxTime
           /\ ratelimiter' = [ratelimiter EXCEPT !.balance = r.balance,
                                                 !.last_operation = r.last_operation]
           /\ limited' = [called |-> TRUE, cost |-> c, replenished |-> r.replenished,
                          success |-> r.success, sleep_needed |-> r.sleep_needed]
           /\ now' = now + r.sleep_needed
    /\ UNCHANGED <<treevars, scanvars, poolvars, wormsvars>>

\* time passes
Tick ==
    /\ now < MaxTime
    /\ now' = now + 1
    /\ UNCHANGED <<ratelimiter, limited>>
    /\ UNCHANGED <<treevars, scanvars, poolvars, wormsvars>>

----------------------------------------------------------------------------
(* voussoirkit.worms *)

MaxThreads == 2
MaxSavepointIds == 2
MaxDepth == 2
MaxTasks == 2
MaxRows == 1
MaxTransactions == 2
MaxQueue == 3

\* the threads that use the database (threading.current_thread().ident)
THREADS == 1..MaxThreads

\* the values RNG.getrandbits draws a savepoint id from
SAVEPOINT_IDS == 1..MaxSavepointIds

\* the sqlite connection before any transaction: `rows` are the rows of the
\* table as the connection sees them, `committed` the rows committed
NoTransactionSql == [active |-> FALSE, rows |-> 0, committed |-> 0, savepoints |-> <<>>]

\* an entry of on_commit_queue / on_rollback_queue: a savepoint id (an int),
\* or a task, numbered, with the transaction during which it was queued
SavepointEntry(id) == [kind |-> "savepoint", id |-> id, txn |-> 0]
Task(kind, id) == [kind |-> kind, id |-> id, txn |-> transactions]

\* isinstance(task, int)
IsInt(task) == task.kind = "savepoint"

\* the positions of item in li
Positions(li, item) == {i \in 1..Len(li) : li[i] = item}

SetMin(S) == CHOOSE x \in S : \A y \in S : x <= y
SetMax(S) == CHOOSE x \in S : \A y \in S : x >= y

\* slice_before(li, item): li[:li.index(item)], the index being that of the
\* first occurrence
slice_before(li, item) == SubSeq(li, 1, SetMin(Positions(li, item)) - 1)

\* sqlite: SAVEPOINT "name"
sql_savepoint(db, name) ==
    [db EXCEPT !.savepoints = Append(@, [name |-> name, rows |-> db.rows])]

\* the savepoint a name refers to in sqlite: the most recent one of that name
\* (0: there is none)
sql_find(db, name) ==
    LET found == {i \in 1..Len(db.savepoints) : db.savepoints[i].name = name}
    IN  IF found = {} THEN 0 ELSE SetMax(found)

\* sqlite: ROLLBACK TO "name": the rows are those of the savepoint, which
\* stays on the stack, the later savepoints are gone
sql_rollback_to(db, name) ==
    LET i == sql_find(db, name)
    IN  IF i = 0 THEN db
        ELSE [db EXCEPT !.rows = db.savepoints[i].rows,
                        !.savepoints = SubSeq(@, 1, i)]

\* sqlite: RELEASE "name": the savepoint and the later ones are gone
sql_release(db, name) ==
    LET i == sql_find(db, name)
    IN  IF i = 0 THEN db ELSE [db EXCEPT !.savepoints = SubSeq(@, 1, i - 1)]

\* sqlite: ROLLBACK
sql_rollback(db) ==
    [db EXCEPT !.active = FALSE, !.rows = db.committed, !.savepoints = <<>>]

\* sql_write.commit()
sql_commit(db) ==
    [db EXCEPT !.active = FALSE, !.committed = db.rows, !.savepoints = <<>>]

\* the tasks of a queue, run from its end to its start (pop(-1)), and the
\* savepoint ids skipped
RECURSIVE RunAll(_)
RunAll(queue) ==
    IF queue = <<>> THEN <<>>
    ELSE LET task == queue[Len(queue)]
             rest == RunAll(SubSeq(queue, 1, Len(queue) - 1))
         IN  IF IsInt(task) THEN rest
             ELSE <<[task |-> task, during |-> transactions]>> \o rest

\* the loop of rollback(savepoint): entries are popped from the end of
\* on_rollback_queue and run, until the entry equal to savepoint is popped
\* or the queue is empty; the queue left, and the tasks run in order
RECURSIVE RollbackLoop(_, _, _)
RollbackLoop(queue, savepoint, ran) ==
    IF queue = <<>> THEN [queue |-> queue, ran |-> ran]
    ELSE LET task == queue[Len(queue)]
             rest == SubSeq(queue, 1, Len(queue) - 1)
         IN  IF task = SavepointEntry(savepoint) THEN [queue |-> rest, ran |-> ran]
             ELSE IF IsInt(task) THEN RollbackLoop(rest, savepoint, ran)
             ELSE RollbackLoop(rest, savepoint,
                               Append(ran, [task |-> task, during |-> transactions]))

\* a lock that never reads as taken
never_locked(lock) == FALSE

\* Lock.locked() of database._worms_transaction_lock
locked(lock) == lock

\* the state of the database, as the methods below change it
Database ==
    [transaction_lock |-> transaction_lock, transaction_owner |-> transaction_owner,
     savepoints |-> savepoints, on_commit_queue |-> on_commit_queue,
     on_rollback_queue |-> on_rollback_queue, sql |-> sql, actions |-> actions]

\* Database.release_transaction_lock, called by the thread t
release_transaction_lock(db, t) ==
    IF ~locked(db.transaction_lock) THEN db
    ELSE IF db.transaction_owner # t THEN db
    ELSE [db EXCEPT !.transaction_owner = 0, !.transaction_lock = FALSE]

\* Database.rollback(savepoint=savepoint), called by the owner of the
\* transaction
rollback_to(db, savepoint) ==
    IF Positions(db.savepoints, savepoint) = {} THEN db
    ELSE LET loop == RollbackLoop(db.on_rollback_queue, savepoint, <<>>)
         IN  [db EXCEPT !.on_rollback_queue = loop.queue,
                        !.actions = @ \o loop.ran,
                        !.sql = sql_rollback_to(@, savepoint),
                        !.savepoints = slice_before(@, savepoint),
                        !.on_commit_queue = slice_before(@, SavepointEntry(savepoint))]

\* Database.rollback(), called by the thread t that owns the transaction
rollback(db, t) ==
    release_transaction_lock(
        [db EXCEPT !.on_rollback_queue = <<>>,
                   !.actions = @ \o RunAll(db.on_rollback_queue),
                   !.sql = sql_rollback(@),
                   !.savepoints = <<>>,
                   !.on_commit_queue = <<>>],
        t)

\* Database.commit(), called by the thread t
commit(db, t) ==
    release_transaction_lock(
        [db EXCEPT !.on_commit_queue = <<>>,
                   !.actions = @ \o RunAll(db.on_commit_queue),
                   !.savepoints = <<>>,
                   !.sql = sql_commit(@)],
        t)

\* Database.release_savepoint(savepoint), allow_commit being False
release_savepoint(db, savepoint) ==
    IF Positions(db.savepoints, savepoint) = {} THEN db
    ELSE IF savepoint = db.savepoints[1] THEN db
    ELSE [db EXCEPT !.sql = sql_release(@, savepoint),
                    !.savepoints = slice_before(@, savepoint)]

\* Database.savepoint(), the id drawn being savepoint_id
savepoint(db, savepoint_id) ==
    [db EXCEPT !.sql = sql_savepoint(@, savepoint_id),
               !.savepoints = Append(@, savepoint_id),
               !.on_commit_queue = Append(@, SavepointEntry(savepoint_id)),
               !.on_rollback_queue = Append(@, SavepointEntry(savepoint_id))]

\* the database becomes db
Becomes(db) ==
    /\ transaction_lock' = db.transaction_lock
    /\ transaction_owner' = db.transaction_owner
    /\ savepoints' = db.savepoints
    /\ on_commit_queue' = db.on_commit_queue
    /\ on_rollback_queue' = db.on_rollback_queue
    /\ sql' = db.sql
    /\ actions' = db.actions

\* the tasks queued or run so far, and the number the next task gets
TaskIds ==
    {on_commit_queue[i].id : i \in {j \in 1..Len(on_commit_queue) : ~IsInt(on_commit_queue[j])}}
    \cup {on_rollback_queue[i].id : i \in {j \in 1..Len(on_rollback_queue) : ~IsInt(on_rollback_queue[j])}}
    \cup {actions[i].task.id : i \in 1..Len(actions)}

NextTaskId == IF TaskIds = {} THEN 1 ELSE SetMax(TaskIds) + 1

\* the call of the thread t ends with the exception (or "none": it returns)
Raises(t, exception) == traised' = [traised EXCEPT ![t] = exception]

\* Database.begin, up to the acquire of the lock.  The thread that owns
\* the transaction goes straight to execute('BEGIN'), which sqlite refuses
\* inside a transaction; another thread goes to acquire the lock
Begin(t) ==
    /\ tpc[t] \in {"idle", "transaction"}
    /\ IF transaction_owner = t
       THEN /\ Raises(t, "OperationalError")
            /\ UNCHANGED <<tpc, transactions>>
       ELSE /\ transactions < MaxTransactions
            /\ tpc' = [tpc EXCEPT ![t] = "acquire"]
            /\ Raises(t, "none")
            /\ UNCHANGED transactions
    /\ UNCHANGED <<transaction_lock, transaction_owner, savepoints, on_commit_queue,
                   on_rollback_queue, sql, frames, actions>>
    /\ UNCHANGED <<treevars, scanvars, poolvars, ratevars>>

\* self._worms_transaction_lock.acquire() returns once the lock is free
AcquireLock(t) ==
    /\ tpc[t] = "acquire"
    /\ ~locked(transaction_lock)
    /\ transaction_lock' = TRUE
    /\ tpc' = [tpc EXCEPT ![t] = "set_owner"]
    /\ UNCHANGED <<transaction_owner, savepoints, on_commit_queue, on_rollback_queue,
                   sql, traised, frames, actions, transactions>>
    /\ UNCHANGED <<treevars, scanvars, poolvars, ratevars>>

\* self._worms_transaction_owner = thread_id, then execute('BEGIN')
SetOwner(t) ==
    /\ tpc[t] = "set_owner"
    /\ transaction_owner' = t
    /\ sql' = [sql EXCEPT !.active = TRUE]
    /\ transactions' = transactions + 1
    /\ tpc' = [tpc EXCEPT ![t] = "transaction"]
    /\ UNCHANGED <<transaction_lock, savepoints, on_commit_queue, on_rollback_queue,
                   traised, frames, actions>>
    /\ UNCHANGED <<treevars, scanvars, poolvars, ratevars>>

\* Database.commit(), by the thread that began the transaction, outside any
\* @atomic method
Commit(t) ==
    /\ tpc[t] = "transaction"
    /\ frames = <<>>
    /\ Becomes(commit(Database, t))
    /\ tpc' = [tpc EXCEPT ![t] = "idle"]
    /\ Raises(t, "none")
    /\ UNCHANGED <<frames, transactions>>
    /\ UNCHANGED <<treevars, scanvars, poolvars, ratevars>>

\* Database.rollback(), by the thread that began the transaction, outside
\* any @atomic method
Rollback(t) ==
    /\ tpc[t] = "transaction"
    /\ frames = <<>>
    /\ Becomes(rollback(Database, t))
    /\ tpc' = [tpc EXCEPT ![t] = "idle"]
    /\ Raises(t, "none")
    /\ UNCHANGED <<frames, transactions>>
    /\ UNCHANGED <<treevars, scanvars, poolvars, ratevars>>

\* a method decorated with @atomic is called: wrapped_atomic up to the call of
\* the method.  database.savepoint draws the id, then execute raises
\* NoTransaction in a thread that does not own the transaction
AtomicCall(t, savepoint_id) ==
    /\ tpc[t] \in {"idle", "transaction"}
    /\ IF transaction_owner # t
       THEN /\ Raises(t, "NoTransaction")
            /\ UNCHANGED <<transaction_lock, transaction_owner, savepoints,
                           on_commit_queue, on_rollback_queue, sql, frames, actions>>
       ELSE /\ Len(frames) < MaxDepth
            /\ Len(on_rollback_queue) < MaxQueue
            /\ Len(sql.savepoints) < MaxQueue
            /\ Becomes(savepoint(Database, savepoint_id))
            /\ frames' = Append(frames,
                    [savepoint_id |-> savepoint_id, is_root |-> Len(savepoints) = 0,
                     savepoints |-> savepoints, on_commit_queue |-> on_commit_queue,
                     on_rollback_queue |-> on_rollback_queue, rows |-> sql.rows])
            /\ Raises(t, "none")
    /\ UNCHANGED <<tpc, transactions>>
    /\ UNCHANGED <<treevars, scanvars, poolvars, ratevars>>

\* the code of the transaction queues a task: on_commit_queue.append, or
\* on_rollback_queue.append
QueueTask(t, kind) ==
    /\ tpc[t] = "transaction"
    /\ NextTaskId <= MaxTasks
    /\ IF kind = "on_commit"
       THEN /\ Len(on_commit_queue) < MaxQueue
            /\ on_commit_queue' = Append(on_commit_queue, Task(kind, NextTaskId))
            /\ UNCHANGED on_rollback_queue
       ELSE /\ Len(on_rollback_queue) < MaxQueue
            /\ on_rollback_queue' = Append(on_rollback_queue, Task(kind, NextTaskId))
            /\ UNCHANGED on_commit_queue
    /\ UNCHANGED <<transaction_lock, transaction_owner, savepoints, sql, tpc, traised,
                   frames, actions, transactions>>
    /\ UNCHANGED <<treevars, scanvars, poolvars, ratevars>>

\* the code of the transaction writes a row: Database.insert
Insert(t) ==
    /\ tpc[t] = "transaction"
    /\ sql.rows < MaxRows
    /\ sql' = [sql EXCEPT !.rows = @ + 1]
    /\ UNCHANGED <<transaction_lock, transaction_owner, savepoints, on_commit_queue,
                   on_rollback_queue, tpc, traised, frames, actions, transactions>>
    /\ UNCHANGED <<treevars, scanvars, poolvars, ratevars>>

\* the innermost @atomic method raises: wrapped_atomic rolls back to its
\* savepoint and raises again
AtomicRaise(t) ==
    /\ tpc[t] = "transaction"
    /\ frames # <<>>
    /\ Becomes(rollback_to(Database, frames[Len(frames)].savepoint_id))
    /\ frames' = SubSeq(frames, 1, Len(frames) - 1)
    /\ Raises(t, "MethodError")
    /\ UNCHANGED <<tpc, transactions>>
    /\ UNCHANGED <<treevars, scanvars, poolvars, ratevars>>

\* the innermost @atomic method returns a raise_without_rollback:
\* wrapped_atomic raises its exception, and nothing else
AtomicRaiseWithoutRollback(t) ==
    /\ tpc[t] = "transaction"
    /\ frames # <<>>
    /\ frames' = SubSeq(frames, 1, Len(frames) - 1)
    /\ Raises(t, "ResultError")
    /\ UNCHANGED <<transaction_lock, transaction_owner, savepoints, on_commit_queue,
                   on_rollback_queue, sql, tpc, actions, transactions>>
    /\ UNCHANGED <<treevars, scanvars, poolvars, ratevars>>

\* the innermost @atomic method returns: the savepoint of a call that is
\* not the root is released
AtomicReturn(t) ==
    /\ tpc[t] = "transaction"
    /\ frames # <<>>
    /\ LET frame == frames[Len(frames)]
       IN  Becomes(IF frame.is_root THEN Database
                   ELSE release_savepoint(Database, frame.savepoint_id))
    /\ frames' = SubSeq(frames, 1, Len(frames) - 1)
    /\ Raises(t, "none")
    /\ UNCHANGED <<tpc, transactions>>
    /\ UNCHANGED <<treevars, scanvars, poolvars, ratevars>>

----------------------------------------------------------------------------
(* The callers: a query is typed word by word (or character by character),  *)
(* then handed to ExpressionTree.parse, and the tree is evaluated against   *)
(* a text or rendered back to a string.                                     *)

MaxOperands == 4
MaxWords == 4
MaxChars == 4
MaxParenChars == 5
MaxMapOperands == 3
MaxScanOperands == 3
MaxScanChars == 5

Letters == <<"a", "b", "c", "d", "e", "f">>

\* the word AND written in double quotes
QUOTED_AND == <<QUOTE>> \o AND \o <<QUOTE>>

\* the words of the free-form queries
WordAlphabet == {<<"a">>, <<"b">>, AND, OR, XOR, NOT, <<"(">>, <<")">>, QUOTED_AND}

\* the characters of the character-level queries
CharAlphabet == {"a", "b", SPACE, TAB, QUOTE, BACKSLASH, "(", ")"}

\* the characters of the queries of operands and parentheses
ParenAlphabet == {"a", "b", "(", ")"}

RECURSIVE SplitWords(_, _)
\* the space-separated words of a string, `word` being the one in progress
SplitWords(s, word) ==
    IF s = <<>> THEN (IF word = <<>> THEN <<>> ELSE <<word>>)
    ELSE IF Head(s) = SPACE
         THEN (IF word = <<>> THEN SplitWords(Tail(s), <<>>)
               ELSE <<word>> \o SplitWords(Tail(s), <<>>))
         ELSE SplitWords(Tail(s), Append(word, Head(s)))

Words(s) == SplitWords(s, <<>>)

RECURSIVE JoinWords(_)
JoinWords(ws) ==
    IF ws = <<>> THEN <<>>
    ELSE IF Len(ws) = 1 THEN ws[1]
    ELSE ws[1] \o <<SPACE>> \o JoinWords(Tail(ws))

LastWord(s) == LET ws == Words(s) IN IF ws = <<>> THEN <<>> ELSE ws[Len(ws)]

IsOperandWord(w) == Len(w) = 1 /\ \E i \in 1..Len(Letters) : Letters[i] = w[1]

OperandCount(s) == Cardinality({i \in 1..Len(Words(s)) : IsOperandWord(Words(s)[i])})

\* the letters that occur in a string, in the order of Letters
RECURSIVE LettersIn(_, _)
LettersIn(s, i) ==
    IF i > Len(Letters) THEN <<>>
    ELSE (IF \E k \in 1..Len(s) : s[k] = Letters[i] THEN <<Letters[i]>> ELSE <<>>)
         \o LettersIn(s, i + 1)

\* the texts a query is evaluated against: one per set of its letters
RECURSIVE SubTexts(_)
SubTexts(ls) ==
    IF ls = <<>> THEN {<<>>}
    ELSE LET rest == SubTexts(Tail(ls))
         IN rest \cup {<<Head(ls)>> \o t : t \in rest}

Texts(s) == SubTexts(LettersIn(s, 1))

Type(w) ==
    expression' = (IF expression = <<>> THEN w ELSE expression \o <<SPACE>> \o w)
    /\ UNCHANGED <<pc, tokens, heap, root, error, rendered, text, result, match_function, raised>>
    /\ UNCHANGED <<scanvars, poolvars, wormsvars, ratevars>>

\* a flat query: the next operand
FlatOperand ==
    /\ pc = "input"
    /\ OperandCount(expression) < MaxOperands
    /\ LastWord(expression) \in OPERATORS \cup {<<>>}
    /\ Type(<<Letters[OperandCount(expression) + 1]>>)

\* a flat query: NOT before the next operand
FlatNot ==
    /\ pc = "input"
    /\ OperandCount(expression) < MaxOperands
    /\ LastWord(expression) \in BINARY_OPERATORS \cup {<<>>}
    /\ Type(NOT)

\* a flat query: a binary operator after an operand
FlatOperator(op) ==
    /\ pc = "input"
    /\ OperandCount(expression) < MaxOperands
    /\ IsOperandWord(LastWord(expression))
    /\ Type(op)

\* a free-form query: any word
TypeWord(w) ==
    /\ pc = "input"
    /\ Len(Words(expression)) < MaxWords
    /\ Type(w)

\* a character-level query: any character
TypeChar(c) ==
    /\ pc = "input"
    /\ Len(expression) < MaxChars
    /\ expression' = Append(expression, c)
    /\ UNCHANGED <<pc, tokens, heap, root, error, rendered, text, result, match_function, raised>>
    /\ UNCHANGED <<scanvars, poolvars, wormsvars, ratevars>>

\* a query of operands and parentheses, typed character by character
TypeParen(c) ==
    /\ pc = "input"
    /\ Len(expression) < MaxParenChars
    /\ expression' = Append(expression, c)
    /\ UNCHANGED <<pc, tokens, heap, root, error, rendered, text, result, match_function, raised>>
    /\ UNCHANGED <<scanvars, poolvars, wormsvars, ratevars>>

\* ExpressionTree.parse(expression), a string
Parse ==
    /\ pc = "input"
    /\ LET r == parse_list(<<>>, tokenize(expression))
       IN /\ tokens' = tokenize(expression)
          /\ heap' = r.heap
          /\ root' = r.current
          /\ error' = r.error
    /\ pc' = "parsed"
    /\ UNCHANGED <<expression, rendered, text, result, match_function, raised>>
    /\ UNCHANGED <<scanvars, poolvars, wormsvars, ratevars>>

\* the caller holds the list that grouping yields for the words typed
Sublist ==
    /\ pc = "input"
    /\ tokens' = sublist_tokens(tokenize_flat(expression))
    /\ pc' = "tokens"
    /\ UNCHANGED <<expression, heap, root, error, rendered, text, result, match_function, raised>>
    /\ UNCHANGED <<scanvars, poolvars, wormsvars, ratevars>>

\* implied_tokens(tokens)
ImpliedTokens ==
    /\ pc = "tokens"
    /\ tokens' = implied_tokens(tokens)
    /\ pc' = "implied"
    /\ UNCHANGED <<expression, heap, root, error, rendered, text, result, match_function, raised>>
    /\ UNCHANGED <<scanvars, poolvars, wormsvars, ratevars>>

\* ExpressionTree.parse(tokens), a list
ParseTokens ==
    /\ pc = "tokens"
    /\ LET r == parse_list(<<>>, tokens)
       IN /\ heap' = r.heap
          /\ root' = r.current
          /\ error' = r.error
    /\ pc' = "parsed_tokens"
    /\ UNCHANGED <<expression, tokens, rendered, text, result, match_function, raised>>
    /\ UNCHANGED <<scanvars, poolvars, wormsvars, ratevars>>

\* tree.evaluate(txt)
Evaluate(txt) ==
    /\ pc = "parsed"
    /\ error = "none"
    /\ text' = txt
    /\ match_function' = "None"
    /\ result' = evaluate(heap, root, txt)
    /\ raised' = (IF result' \in {"True", "False"} THEN <<>>
                  ELSE evaluate_with(heap, root, txt, "None"))
    /\ pc' = "evaluated"
    /\ UNCHANGED <<expression, tokens, heap, root, error, rendered>>
    /\ UNCHANGED <<scanvars, poolvars, wormsvars, ratevars>>

\* tree.evaluate(obj, match_function=mf) on an object that is not a string
EvaluateObject(mf) ==
    /\ pc = "parsed"
    /\ error = "none"
    /\ text' = NON_STRING
    /\ match_function' = mf
    /\ LET value == evaluate_with(heap, root, NON_STRING, mf)
       IN /\ result' = value[1]
          /\ raised' = (IF IsException(value) THEN value ELSE <<>>)
    /\ pc' = "evaluated_object"
    /\ UNCHANGED <<expression, tokens, heap, root, error, rendered>>
    /\ UNCHANGED <<scanvars, poolvars, wormsvars, ratevars>>

\* str(tree)
Str ==
    /\ pc = "parsed"
    /\ error = "none"
    /\ rendered' = tree_str(heap, root)
    /\ pc' = "rendered"
    /\ UNCHANGED <<expression, tokens, heap, root, error, text, result, match_function, raised>>
    /\ UNCHANGED <<scanvars, poolvars, wormsvars, ratevars>>

\* the operand words of a query
OperandWords(s) == {Words(s)[i] : i \in {i \in 1..Len(Words(s)) : IsOperandWord(Words(s)[i])}}

\* tree.map(function), the function returning None for the operands dropped
Map(dropped) ==
    /\ pc = "parsed"
    /\ error = "none"
    /\ OperandCount(expression) <= MaxMapOperands
    /\ heap' = map(heap, root, dropped)
    /\ pc' = "mapped"
    /\ UNCHANGED <<expression, tokens, root, error, rendered, text, result, match_function, raised>>
    /\ UNCHANGED <<scanvars, poolvars, wormsvars, ratevars>>

\* tree.prune()
Prune ==
    /\ pc = "mapped"
    /\ LET st == prune([heap |-> heap, error |-> "none"], root)
       IN /\ heap' = st.heap
          /\ error' = st.error
    /\ pc' = "pruned"
    /\ UNCHANGED <<expression, tokens, root, rendered, text, result, match_function, raised>>
    /\ UNCHANGED <<scanvars, poolvars, wormsvars, ratevars>>

----------------------------------------------------------------------------
(* tokenize, loop by loop *)

\* no loop is being followed
NoScan ==
    [loop |-> "none", token |-> StrTok(<<>>), tokens |-> <<>>, index |-> 0,
     slice_start |-> None, slice_end |-> None, precedence_stack |-> <<>>]

\* the loops that run, and those that have been left
RUNNING == {"while", "order"}
LEFT == {"skipped", "left", "ordered"}

\* `for token in tokens:` of implied_tokens reaches the i-th token and comes to
\* the test of its while loop
ForToken(toks, i) ==
    /\ scan' = [NoScan EXCEPT !.loop = "while", !.token = implied_argument(toks)[i]]
    /\ pc' = "tokenize"
    /\ UNCHANGED <<expression, tokens, heap, root, error, rendered, text, result, match_function, raised>>
    /\ UNCHANGED <<poolvars, wormsvars, ratevars>>

\* tokenize(expression) has called implied_tokens on the grouped tokens
ImpliedFor(i) ==
    /\ pc = "input"
    /\ ForToken(sublist_tokens(tokenize_flat(expression)), i)

\* `token = implied_tokens(token)` inside the while loop: the call made there
\* comes to the while loop of its own i-th token
ImpliedCall(i) ==
    /\ scan.loop = "while"
    /\ scan.token.kind = "list"
    /\ Len(scan.token.g) > 1
    /\ ForToken(scan.token.g, i)

\* the test of `while isinstance(token, (list, tuple))` and, when it holds,
\* one pass of the body
ImpliedWhile ==
    /\ scan.loop = "while"
    /\ \E s \in {IF scan.token.kind = "list" THEN implied_while_step(scan.token)
                  ELSE [break |-> TRUE, skip_this |-> FALSE, token |-> scan.token]} :
           scan' = [scan EXCEPT !.token = s.token,
                                !.loop = IF s.skip_this THEN "skipped"
                                         ELSE IF s.break THEN "left"
                                         ELSE "while"]
    /\ UNCHANGED treevars
    /\ UNCHANGED <<poolvars, wormsvars, ratevars>>

RECURSIVE order_arguments(_)
\* the lists that order_operations(toks0) and the calls it makes on its own
\* lists are given
order_arguments(toks0) ==
    {toks0} \cup UNION {order_arguments(toks0[i].g) :
                            i \in {i \in 1..Len(toks0) : toks0[i].kind = "list"}}

\* a call of order_operations made by tokenize(expression) passes
\* `if len(tokens) < 5: return tokens` and comes to the test of its while loop
OrderCall(toks0) ==
    /\ pc = "input"
    /\ expression # <<>>
    /\ scan' = [NoScan EXCEPT !.tokens = order_sublists(toks0),
                              !.loop = IF Len(toks0) < 5 THEN "ordered" ELSE "order"]
    /\ pc' = "tokenize"
    /\ UNCHANGED <<expression, tokens, heap, root, error, rendered, text, result, match_function, raised>>
    /\ UNCHANGED <<poolvars, wormsvars, ratevars>>

\* the local variables of the while loop of order_operations
order_locals(sc) ==
    [tokens |-> sc.tokens, index |-> sc.index, slice_start |-> sc.slice_start,
     slice_end |-> sc.slice_end, precedence_stack |-> sc.precedence_stack]

\* the test of `while index < len(tokens)` and, when it holds, one pass of the
\* body; when it fails, the slice left open is closed and the list returned
OrderWhile ==
    /\ scan.loop = "order"
    /\ \E st \in {IF scan.index < Len(scan.tokens)
                   THEN order_step(order_locals(scan))
                   ELSE order_locals(scan)} :
           scan' = (IF scan.index < Len(scan.tokens)
                    THEN [scan EXCEPT !.tokens = st.tokens, !.index = st.index,
                                      !.slice_start = st.slice_start,
                                      !.slice_end = st.slice_end,
                                      !.precedence_stack = st.precedence_stack]
                    ELSE [scan EXCEPT !.loop = "ordered",
                                      !.tokens = order_return(st)])
    /\ UNCHANGED treevars
    /\ UNCHANGED <<poolvars, wormsvars, ratevars>>

Init ==
    /\ pc = "input"
    /\ expression = <<>>
    /\ tokens = <<>>
    /\ heap = <<>>
    /\ root = 0
    /\ error = "none"
    /\ rendered = <<>>
    /\ text = <<>>
    /\ result = "none"
    /\ match_function = "None"
    /\ raised = <<>>
    /\ scan = NoScan
    /\ size = 0
    /\ jobs = <<>>
    /\ pending_jobs = <<>>
    /\ jobs_available = FALSE
    /\ unpaused_event = FALSE
    /\ closed = FALSE
    /\ result_queue = NoQueue
    /\ job_manager_lock = 0
    /\ wpc = <<>>
    /\ wjob = <<>>
    /\ gpc = "idle"
    /\ gjob = 0
    /\ was_paused = FALSE
    /\ yielded = <<>>
    /\ jpc = "idle"
    /\ add_call = [via |-> "none", raised |-> "none"]
    /\ transaction_lock = FALSE
    /\ transaction_owner = 0
    /\ savepoints = <<>>
    /\ on_commit_queue = <<>>
    /\ on_rollback_queue = <<>>
    /\ sql = NoTransactionSql
    /\ tpc = [t \in THREADS |-> "idle"]
    /\ traised = [t \in THREADS |-> "none"]
    /\ frames = <<>>
    /\ actions = <<>>
    /\ transactions = 0
    /\ ratelimiter = NoRatelimiter
    /\ now = 0
    /\ limited = NotLimited

\* flat, unparenthesized queries
NextFlat ==
    \/ FlatOperand
    \/ FlatNot
    \/ \E op \in BINARY_OPERATORS : FlatOperator(op)
    \/ Parse
    \/ \E txt \in Texts(expression) : Evaluate(txt)

SpecFlat == Init /\ [][NextFlat]_vars

\* flat queries, edited after parsing with map and prune
NextPrune ==
    \/ FlatOperand
    \/ FlatNot
    \/ \E op \in BINARY_OPERATORS : FlatOperator(op)
    \/ Parse
    \/ \E dropped \in SUBSET OperandWords(expression) : Map(dropped)
    \/ Prune

SpecPrune == Init /\ [][NextPrune]_vars

\* free-form queries, word by word
Next ==
    \/ \E w \in WordAlphabet : TypeWord(w)
    \/ Parse
    \/ \E txt \in Texts(expression) : Evaluate(txt)
    \/ \E mf \in MATCH_FUNCTIONS : EvaluateObject(mf)
    \/ Sublist
    \/ ImpliedTokens
    \/ ParseTokens

Spec == Init /\ [][Next]_vars

\* queries typed character by character
NextChars ==
    \/ \E c \in CharAlphabet : TypeChar(c)
    \/ Parse
    \/ Str

SpecChars == Init /\ [][NextChars]_vars

\* queries of operands and parentheses
NextParens ==
    \/ \E c \in ParenAlphabet : TypeParen(c)
    \/ Parse

SpecParens == Init /\ [][NextParens]_vars

\* jobs are added, then the results are read through result_generator
NextGenerator ==
    \/ \E n \in 1..MaxWorkers : ThreadPool(n)
    \/ Add(FALSE)
    \/ ResultGenerator
    \/ WhileJobsAvailable
    \/ WhileNotEmpty
    \/ QueueGet
    \/ Yield
    \/ GeneratorReturn
    \/ \E w \in 1..size : WaitJobsAvailable(w)
    \/ \E w \in 1..size : WaitUnpaused(w)
    \/ \E w \in 1..size : GetNextJob(w)
    \/ \E w \in 1..size : StopIteration(w)
    \/ \E w \in 1..size : ClearJobsAvailable(w)
    \/ \E w \in 1..size : ReturnNoMoreJobs(w)
    \/ \E w \in 1..size, status \in {"FINISHED", "RAISED"} : RunJob(w, status)

SpecGenerator == Init /\ [][NextGenerator]_vars

\* a caller that fills the paused pool first and only then reads the results:
\* pool.add(...) before result_generator is called, never after
AddBeforeGenerator ==
    /\ gpc = "idle"
    /\ Add(FALSE)

\* a paused pool is filled, then the results are read through result_generator
NextPaused ==
    \/ \E n \in 1..MaxWorkers : ThreadPool(n)
    \/ AddBeforeGenerator
    \/ ResultGenerator
    \/ WhileJobsAvailable
    \/ WhileNotEmpty
    \/ QueueGet
    \/ Yield
    \/ GeneratorReturn
    \/ \E w \in 1..size : WaitJobsAvailable(w)
    \/ \E w \in 1..size : WaitUnpaused(w)
    \/ \E w \in 1..size : GetNextJob(w)
    \/ \E w \in 1..size : StopIteration(w)
    \/ \E w \in 1..size : ClearJobsAvailable(w)
    \/ \E w \in 1..size : ReturnNoMoreJobs(w)
    \/ \E w \in 1..size, status \in {"FINISHED", "RAISED"} : RunJob(w, status)

SpecPaused == Init /\ [][NextPaused]_vars

\* jobs are added with and without callbacks, and the pool is started
NextCallback ==
    \/ \E n \in 1..MaxWorkers : ThreadPool(n)
    \/ \E asked \in BOOLEAN : Add(asked)
    \/ \E asked \in BOOLEAN, n \in 1..MaxJobs : AddMany(asked, n)
    \/ \E asked \in BOOLEAN, n \in 1..MaxJobs : AddGenerator(asked, n)
    \/ Start
    \/ \E w \in 1..size : WaitJobsAvailable(w)
    \/ \E w \in 1..size : WaitUnpaused(w)
    \/ \E w \in 1..size : GetNextJob(w)
    \/ \E w \in 1..size : StopIteration(w)
    \/ \E w \in 1..size : ClearJobsAvailable(w)
    \/ \E w \in 1..size : ReturnNoMoreJobs(w)
    \/ \E w \in 1..size, status \in {"FINISHED", "RAISED"} : RunJob(w, status)

SpecCallback == Init /\ [][NextCallback]_vars

\* threads begin, commit and roll back transactions
NextTransactions ==
    \/ \E t \in THREADS : Begin(t)
    \/ \E t \in THREADS : AcquireLock(t)
    \/ \E t \in THREADS : SetOwner(t)
    \/ \E t \in THREADS : Commit(t)
    \/ \E t \in THREADS : Rollback(t)
    \/ \E t \in THREADS, kind \in {"on_commit", "on_rollback"} : QueueTask(t, kind)

SpecTransactions == Init /\ [][NextTransactions]_vars

\* the thread that makes the calls of @atomic methods
MAIN_THREAD == 1

\* transactions made of calls of @atomic methods, by one thread
NextAtomic ==
    \/ Begin(MAIN_THREAD)
    \/ AcquireLock(MAIN_THREAD)
    \/ SetOwner(MAIN_THREAD)
    \/ Commit(MAIN_THREAD)
    \/ Rollback(MAIN_THREAD)
    \/ \E kind \in {"on_commit", "on_rollback"} : QueueTask(MAIN_THREAD, kind)
    \/ Insert(MAIN_THREAD)
    \/ \E id \in SAVEPOINT_IDS : AtomicCall(MAIN_THREAD, id)
    \/ AtomicRaise(MAIN_THREAD)
    \/ AtomicRaiseWithoutRollback(MAIN_THREAD)
    \/ AtomicReturn(MAIN_THREAD)

SpecAtomic == Init /\ [][NextAtomic]_vars

\* a limiter is made, then limit is called as time passes
NextRatelimiter ==
    \/ \E allowance \in 1..MaxAllowance, mode \in {"sleep", "reject"},
          operation_cost \in 1..MaxCost, period \in 1..MaxPeriod,
          starting_balance \in 1..MaxAllowance + 1, given \in BOOLEAN :
            Ratelimiter(allowance, mode, operation_cost, period, starting_balance, given)
    \/ \E cost \in Costs : Limit(cost, TRUE)
    \/ Limit(0, FALSE)
    \/ Tick

SpecRatelimiter == Init /\ [][NextRatelimiter]_vars

\* jobs are added through the three methods, before and after the pool is
\* joined
NextClosed ==
    \/ \E n \in 1..MaxClosedWorkers : ThreadPool(n)
    \/ Add(FALSE)
    \/ \E n \in 0..MaxJobs : AddMany(FALSE, n)
    \/ \E n \in 0..MaxJobs : AddGenerator(FALSE, n)
    \/ Start
    \/ JoinClose
    \/ JoinSet
    \/ JoinStart
    \/ JoinThreads
    \/ \E w \in 1..size : WaitJobsAvailable(w)
    \/ \E w \in 1..size : WaitUnpaused(w)
    \/ \E w \in 1..size : GetNextJob(w)
    \/ \E w \in 1..size : StopIteration(w)
    \/ \E w \in 1..size : ClearJobsAvailable(w)
    \/ \E w \in 1..size : ReturnNoMoreJobs(w)
    \/ \E w \in 1..size, status \in {"FINISHED", "RAISED"} : RunJob(w, status)

SpecClosed == Init /\ [][NextClosed]_vars

\* jobs are added to a pool, started or not, and the pool is joined
NextJoin ==
    \/ \E n \in 1..MaxWorkers : ThreadPool(n)
    \/ Add(FALSE)
    \/ Start
    \/ JoinClose
    \/ JoinSet
    \/ JoinStart
    \/ JoinThreads
    \/ \E w \in 1..size : WaitJobsAvailable(w)
    \/ \E w \in 1..size : WaitUnpaused(w)
    \/ \E w \in 1..size : GetNextJob(w)
    \/ \E w \in 1..size : StopIteration(w)
    \/ \E w \in 1..size : ClearJobsAvailable(w)
    \/ \E w \in 1..size : ReturnNoMoreJobs(w)
    \/ \E w \in 1..size, status \in {"FINISHED", "RAISED"} : RunJob(w, status)

\* the threads are scheduled fairly: a worker thread, or the thread inside
\* join, that can take a step does take one
FairJoin ==
    /\ \A w \in 1..MaxWorkers : WF_vars(Worker(w))
    /\ WF_vars(Join)

SpecJoin == Init /\ [][NextJoin]_vars /\ FairJoin

\* the characters of the queries of nested groups whose loops are followed
ScanAlphabet == {"a", "(", ")"}

\* tokenize(expression) followed through one of its loops
NextScan ==
    \/ OperandCount(expression) < MaxScanOperands /\ FlatOperand
    \/ OperandCount(expression) < MaxScanOperands /\ FlatNot
    \/ \E op \in BINARY_OPERATORS :
           OperandCount(expression) < MaxScanOperands /\ FlatOperator(op)
    \/ \E c \in ScanAlphabet : Len(expression) < MaxScanChars /\ TypeParen(c)
    \/ \E i \in 1..Len(implied_argument(sublist_tokens(tokenize_flat(expression)))) :
           ImpliedFor(i)
    \/ \E i \in 1..Len(implied_argument(scan.token.g)) : ImpliedCall(i)
    \/ ImpliedWhile
    \/ \E toks0 \in order_arguments(implied_tokens(sublist_tokens(tokenize_flat(expression)))) :
           OrderCall(toks0)
    \/ OrderWhile

\* tokenize runs in the thread of its caller, which goes on to the next
\* statement of a loop as long as there is one
FairScan ==
    /\ WF_vars(ImpliedWhile)
    /\ WF_vars(OrderWhile)

SpecScan == Init /\ [][NextScan]_vars /\ FairScan

----------------------------------------------------------------------------
(* Properties *)

Str_(b) == IF b THEN "True" ELSE "False"

\* parse(expr).evaluate(txt): the value, or the exception raised by either
EvalString(expr, txt) ==
    LET r == parse(expr)
    IN IF r.error # "none" THEN r.error ELSE evaluate(r.heap, r.current, txt)

RECURSIVE SplitOn(_, _, _)
\* the runs of words between the occurrences of the word op
SplitOn(ws, op, run) ==
    IF ws = <<>> THEN <<run>>
    ELSE IF Head(ws) = op THEN <<run>> \o SplitOn(Tail(ws), op, <<>>)
    ELSE SplitOn(Tail(ws), op, Append(run, Head(ws)))

\* The value of a flat query under NOT > AND > XOR > OR.
RefNot(ws, txt) ==
    IF ws[1] = NOT THEN ~Contains(txt, ws[2]) ELSE Contains(txt, ws[1])

RefAnd(ws, txt) ==
    LET runs == SplitOn(ws, AND, <<>>) IN \A i \in 1..Len(runs) : RefNot(runs[i], txt)

RefXor(ws, txt) ==
    LET runs == SplitOn(ws, XOR, <<>>)
    IN Cardinality({i \in 1..Len(runs) : RefAnd(runs[i], txt)}) % 2 = 1

RefOr(ws, txt) ==
    LET runs == SplitOn(ws, OR, <<>>) IN \E i \in 1..Len(runs) : RefXor(runs[i], txt)

FlatComplete == IsOperandWord(LastWord(expression))

\* C1: a well-formed flat query evaluates, on every text, to its value under
\* the precedence NOT > AND > XOR > OR.
C1_FlatPrecedence ==
    (pc = "evaluated" /\ FlatComplete) => result = Str_(RefOr(Words(expression), text))

a_OR_b_AND_c == JoinWords(<<<<"a">>, OR, <<"b">>, AND, <<"c">>>>)
a_OR_lp_b_AND_c_rp == JoinWords(<<<<"a">>, OR, <<"(", "b">>, AND, <<"c", ")">>>>)
a_AND_b_OR_c == JoinWords(<<<<"a">>, AND, <<"b">>, OR, <<"c">>>>)
lp_a_AND_b_rp_OR_c == JoinWords(<<<<"(", "a">>, AND, <<"b", ")">>, OR, <<"c">>>>)

\* C2: 'a OR b AND c' evaluates as 'a OR (b AND c)' and 'a AND b OR c' as
\* '(a AND b) OR c', on every text.
C2_AndBindsTighterThanOr ==
    /\ (pc = "evaluated" /\ expression = a_OR_b_AND_c)
           => result = EvalString(a_OR_lp_b_AND_c_rp, text)
    /\ (pc = "evaluated" /\ expression = a_AND_b_OR_c)
           => result = EvalString(lp_a_AND_b_rp_OR_c, text)

\* 'a OR b AND c' evaluated on the text 'a': true only if AND binds tighter
C2_Witness ==
    pc = "evaluated" /\ expression = a_OR_b_AND_c /\ text = <<"a">> /\ result = "True"

RoundTripTexts ==
    {<<>>, <<"a">>, <<"b">>, <<"a", "b">>, <<"a", SPACE, "b">>, <<"a", TAB, "b">>, <<TAB>>}

\* C3: the rendering of a parsed query parses again, and the two trees
\* evaluate alike on every text.
C3_RoundTrip ==
    pc = "rendered" =>
        LET r == parse(rendered)
        IN /\ r.error = "none"
           /\ \A txt \in RoundTripTexts :
                  evaluate(r.heap, r.current, txt) = evaluate(heap, root, txt)

\* the places where an operand is directly followed by an operand or by NOT
ImpliedAndPlaces(ws) ==
    {i \in 1..(Len(ws) - 1) :
        IsOperandWord(ws[i]) /\ (IsOperandWord(ws[i + 1]) \/ ws[i + 1] = NOT)}

InsertWord(ws, i, w) == SubSeq(ws, 1, i) \o <<w>> \o SubSeq(ws, i + 1, Len(ws))

\* C4: writing AND between an operand and the operand or NOT that directly
\* follows it does not change the value of the query on any text.
C4_ImplicitAnd ==
    pc = "evaluated" =>
        \A i \in ImpliedAndPlaces(Words(expression)) :
            EvalString(JoinWords(InsertWord(Words(expression), i, AND)), text) = result

\* 'a b' evaluated on the text 'a'
C4_Witness ==
    pc = "evaluated" /\ expression = <<"a", SPACE, "b">> /\ text = <<"a">>
    /\ result = "False"

RECURSIVE ExprEnd(_, _)
RECURSIVE MoreTerms(_, _)
\* Recognizer of well-formed queries over words:
\*   expr ::= term ((AND | OR | XOR)? term)*
\*   term ::= NOT? atom          atom ::= operand | "(" expr ")"
\* Each operator gives the position after the phrase that starts at i, or 0.
AtomEnd(ws, i) ==
    IF i > Len(ws) THEN 0
    ELSE IF IsOperandWord(ws[i]) THEN i + 1
    ELSE IF ws[i] = <<"(">>
    THEN LET j == ExprEnd(ws, i + 1)
         IN IF j = 0 \/ j > Len(ws) THEN 0
            ELSE IF ws[j] = <<")">> THEN j + 1 ELSE 0
    ELSE 0

TermEnd(ws, i) ==
    IF i <= Len(ws) /\ ws[i] = NOT THEN AtomEnd(ws, i + 1) ELSE AtomEnd(ws, i)

MoreTerms(ws, j) ==
    IF j > Len(ws) THEN j
    ELSE IF ws[j] \in BINARY_OPERATORS
    THEN LET k == TermEnd(ws, j + 1) IN IF k = 0 THEN 0 ELSE MoreTerms(ws, k)
    ELSE IF IsOperandWord(ws[j]) \/ ws[j] = NOT \/ ws[j] = <<"(">>
    THEN LET k == TermEnd(ws, j) IN IF k = 0 THEN 0 ELSE MoreTerms(ws, k)
    ELSE j

ExprEnd(ws, i) == LET j == TermEnd(ws, i) IN IF j = 0 THEN 0 ELSE MoreTerms(ws, j)

WellFormed(ws) == ExprEnd(ws, 1) = Len(ws) + 1

\* C5: a binary operator written before or after a well-formed query does
\* not change its value on any text.
C5_LeadingTrailingOperator ==
    (pc = "evaluated" /\ WellFormed(Words(expression))) =>
        \A op \in BINARY_OPERATORS :
            /\ EvalString(op \o <<SPACE>> \o expression, text) = result
            /\ EvalString(expression \o <<SPACE>> \o op, text) = result

\* a parenthesized query of two operands, evaluated on a text that matches it
C5_Witness ==
    /\ pc = "evaluated"
    /\ WellFormed(Words(expression))
    /\ Words(expression)[1] = <<"(">>
    /\ OperandCount(expression) >= 2
    /\ result = "True"

IsBinaryTok(token) == token.kind = "str" /\ token.w \in BINARY_OPERATORS

RECURSIVE Normalized(_)
\* no leading binary operator, no trailing operator, no two adjacent
\* operators other than binary-then-NOT, no empty or singleton group
Normalized(toks) ==
    /\ toks # <<>> => (~IsBinaryTok(toks[1]) /\ ~IsOperatorTok(toks[Len(toks)]))
    /\ \A i \in 1..(Len(toks) - 1) :
           (IsOperatorTok(toks[i]) /\ IsOperatorTok(toks[i + 1]))
               => (IsBinaryTok(toks[i]) /\ toks[i + 1].w = NOT)
    /\ \A i \in 1..Len(toks) :
           toks[i].kind = "list" => (Len(toks[i].g) >= 2 /\ Normalized(toks[i].g))

\* C6: the list returned by implied_tokens has no leading binary operator,
\* no trailing operator, no adjacent operators other than binary-then-NOT,
\* and no empty or singleton group, at every level.
C6_ImpliedTokensNormalized == pc = "implied" => Normalized(tokens)

HasOperandWord(ws) == \E i \in 1..Len(ws) : IsOperandWord(ws[i])

\* C7: parse of a string returns a tree or raises NoTokens, and raises
\* NoTokens exactly when normalization leaves no token, which is exactly
\* when the string holds no operand.
C7_OnlyNoTokens ==
    pc = "parsed" =>
        /\ error \in {"none", "NoTokens"}
        /\ error = "NoTokens" <=> tokens = <<>>
        /\ tokens = <<>> <=> ~HasOperandWord(Words(expression))

\* operators and parentheses only: NoTokens
C7_Witness ==
    /\ pc = "parsed"
    /\ error = "NoTokens"
    /\ \E i \in 1..Len(Words(expression)) : Words(expression)[i] \in OPERATORS
    /\ \E i \in 1..Len(Words(expression)) : Words(expression)[i] = <<"(">>

RECURSIVE TreeNodes(_, _)
\* the nodes of the tree under (and including) node
TreeNodes(h, node) ==
    {node} \cup UNION {TreeNodes(h, h[node].children[k]) : k \in 1..Len(h[node].children)}

NotArityOne(h, node) ==
    \A n \in TreeNodes(h, node) : h[n].token = NOT => Len(h[n].children) = 1

\* C8: in the tree parse returns for a string, every NOT node has exactly
\* one child.
C8_NotHasOneChild == (pc = "parsed" /\ error = "none") => NotArityOne(heap, root)

\* a tree with a NOT node under a binary operator
C8_Witness ==
    /\ pc = "parsed"
    /\ error = "none"
    /\ \E n \in TreeNodes(heap, root) : heap[n].token = NOT /\ heap[n].parent # 0

\* C9: parse of a token list never returns a tree with a NOT node whose
\* number of children is not one: it raises instead.
C9_NotArityRaises == (pc = "parsed_tokens" /\ error = "none") => NotArityOne(heap, root)

\* C10: in the tree parse returns for a string, operands have no children,
\* AND/OR/XOR nodes have at least one child, and none of them has a child
\* with its own operator.
C10_TreeShape ==
    (pc = "parsed" /\ error = "none") =>
        \A n \in TreeNodes(heap, root) :
            /\ heap[n].token \notin OPERATORS => heap[n].children = <<>>
            /\ heap[n].token \in BINARY_OPERATORS =>
                   /\ Len(heap[n].children) >= 1
                   /\ \A k \in 1..Len(heap[n].children) :
                          heap[heap[n].children[k]].token # heap[n].token

\* an AND chain continued inside parentheses, flattened into one node
C10_Witness ==
    /\ pc = "parsed"
    /\ error = "none"
    /\ heap[root].token = AND
    /\ Len(heap[root].children) >= 3
    /\ \E i \in 1..Len(tokens) :
           tokens[i].kind = "list" /\ \E k \in 1..Len(tokens[i].g) : tokens[i].g[k] = StrTok(AND)

\* a query of two or more operands joined by XOR and nothing else
IsXorChain(ws) ==
    /\ Len(ws) >= 3
    /\ Len(ws) % 2 = 1
    /\ \A i \in 1..Len(ws) : IF i % 2 = 1 THEN IsOperandWord(ws[i]) ELSE ws[i] = XOR

\* how many operands of the query occur in the text
MatchCount(ws, txt) ==
    Cardinality({i \in 1..Len(ws) : IsOperandWord(ws[i]) /\ Contains(txt, ws[i])})

a_XOR_b_XOR_c == JoinWords(<<<<"a">>, XOR, <<"b">>, XOR, <<"c">>>>)

\* C11: a chain of operands joined by XOR is true iff an odd number of them
\* match the text; 'a XOR b XOR c' is true when one or three operands match
\* and false when none or two do.
C11_XorParity ==
    /\ (pc = "evaluated" /\ IsXorChain(Words(expression)))
           => result = Str_(MatchCount(Words(expression), text) % 2 = 1)
    /\ (pc = "evaluated" /\ expression = a_XOR_b_XOR_c)
           => (result = "True" <=> MatchCount(Words(expression), text) \in {1, 3})

\* 'a XOR b XOR c' evaluated on a text that matches all three operands
C11_Witness ==
    /\ pc = "evaluated"
    /\ expression = a_XOR_b_XOR_c
    /\ text = <<"a", "b", "c">>
    /\ Len(heap[root].children) = 3
    /\ result = "True"

\* the characters a backslash escapes
ESCAPABLE == {BACKSLASH, QUOTE, "(", ")"}

\* one word made of plain characters and backslash escapes, among them at
\* least one escape
RECURSIVE IsEscapedWord(_, _)
IsEscapedWord(s, seen) ==
    IF s = <<>> THEN seen
    ELSE IF Head(s) = BACKSLASH
         THEN Len(s) >= 2 /\ s[2] \in ESCAPABLE /\ IsEscapedWord(Tail(Tail(s)), TRUE)
         ELSE Head(s) \in {"a", "b"} /\ IsEscapedWord(Tail(s), seen)

\* C12: a backslash escape is kept in the token, backslash and escaped
\* character both: a word written with escapes is a single token equal to
\* the word as written.
C12_EscapeKeepsBackslash ==
    (pc = "parsed" /\ IsEscapedWord(expression, FALSE)) => tokens = <<StrTok(expression)>>

\* the places of the closing parentheses met when no group is open (the
\* queries here have no quotes and no escapes)
RECURSIVE StrayParens(_, _, _)
StrayParens(s, i, depth) ==
    IF i > Len(s) THEN {}
    ELSE IF s[i] = "(" THEN StrayParens(s, i + 1, depth + 1)
    ELSE IF s[i] = ")"
         THEN (IF depth = 0 THEN {i} \cup StrayParens(s, i + 1, 0)
               ELSE StrayParens(s, i + 1, depth - 1))
    ELSE StrayParens(s, i + 1, depth)

DeleteAt(s, i) == SubSeq(s, 1, i - 1) \o SubSeq(s, i + 1, Len(s))

\* C13: a closing parenthesis met when no group is open is ignored
\* completely: the query without it has the same tokens.
C13_StrayParenIgnored ==
    pc = "parsed" =>
        \A i \in StrayParens(expression, 1, 0) : tokenize(DeleteAt(expression, i)) = tokens

a_quoted_AND == JoinWords(<<<<"a">>, QUOTED_AND>>)

\* C14: an operator word in double quotes is an operand: the query
\* 'a "AND"' parses, and matches a text only if the text has both 'a' and
\* the word 'AND'.
C14_QuotedOperatorIsOperand ==
    (pc = "parsed" /\ expression = a_quoted_AND) =>
        /\ error = "none"
        /\ evaluate(heap, root, <<"a">> \o <<SPACE>> \o AND) = "True"
        /\ evaluate(heap, root, <<"a">>) = "False"
        /\ evaluate(heap, root, AND) = "False"

\* C15: an exception raised by the match at a leaf reaches the caller, with
\* the default match function, as the guidance Exception whose __cause__ is
\* the exception of the match, whatever the depth of the tree; with a match
\* function of the caller's, it reaches the caller as it was raised.
C15_CauseIsOriginal ==
    (pc = "evaluated_object" /\ raised # <<>>) =>
        IF match_function = "None"
        THEN raised = <<"Exception", "TypeError">>
        ELSE raised = <<"AttributeError">>

\* C16: after map and prune, no node of the tree other than the root has
\* the token None, and no operator node of the tree is without children:
\* each one that lost all its children was removed from its parent.
C16_PruneRemoves ==
    (pc = "pruned" /\ error = "none") =>
        \A n \in TreeNodes(heap, root) \ {root} :
            /\ heap[n].token # TOKEN_NONE
            /\ heap[n].token \in OPERATORS => Len(heap[n].children) > 0

Done == {"FINISHED", "RAISED"}

\* the jobs added when result_generator was called have the ids 1..n
JobsBefore == {j \in 1..Len(jobs) : jobs[j].added = "before"}

InOrder(ids) == \A i \in 1..Len(ids) : ids[i] = i

\* C17: result_generator, started on a paused pool that holds the jobs
\* j1..jn and gets no other job, yields jobs in the order they were added,
\* each one finished or raised when it is yielded, and has yielded every
\* one of them when it returns.
C17_YieldsInOrder ==
    (gpc # "idle" /\ was_paused /\ JobsBefore = 1..Len(jobs)) =>
        /\ InOrder(yielded)
        /\ \A i \in 1..Len(yielded) : jobs[yielded[i]].status \in Done
        /\ gpc = "returned" => Len(yielded) = Len(jobs)

\* two jobs run by two threads, the second one finishing first, and both
\* yielded
C17_Witness ==
    /\ gpc = "returned"
    /\ size = 2
    /\ was_paused
    /\ JobsBefore = {1, 2}
    /\ yielded = <<1, 2>>
    /\ jobs[1].status = "RAISED"
    /\ jobs[2].status = "FINISHED"

\* C19: a callback passed when a job is added, through add, add_many or
\* add_generator, is called once the function of the job has finished or
\* raised, and only once.
C19_CallbackCalledOnce ==
    \A j \in 1..Len(jobs) :
        /\ jobs[j].called <= 1
        /\ jobs[j].called = 1 => jobs[j].status \in Done
        /\ (jobs[j].asked /\ jobs[j].done) => jobs[j].called = 1

\* C20: when result_generator returns it has yielded, in the order added,
\* the jobs added before it was called and those added during its loop.
C20_YieldsJobsAddedWhileRunning ==
    gpc = "returned" =>
        /\ InOrder(yielded)
        /\ \A j \in 1..Len(jobs) :
               jobs[j].added \in {"before", "during"} => \E i \in 1..Len(yielded) : yielded[i] = j

\* C18: under fair scheduling, once join is called it returns, every job
\* added having finished or raised and every worker thread having left its
\* loop.
C18_JoinReturns ==
    (jpc # "idle") ~>
        /\ jpc = "returned"
        /\ \A j \in 1..Len(jobs) : jobs[j].status \in Done
        /\ \A w \in 1..size : wpc[w] = "exited"

\* C21: once join has been called, a call of add, add_many or add_generator
\* raises PoolClosed and leaves the chain of pending jobs as it was, and no
\* job is added any more.
C21_ClosedPoolRejects ==
    [][jpc # "idle" =>
          /\ Len(jobs') = Len(jobs)
          /\ add_call' # add_call =>
                 /\ add_call'.raised = "PoolClosed"
                 /\ pending_jobs' = pending_jobs]_vars

\* add_generator has raised PoolClosed on a joined pool that still holds a
\* pending job
C21_Witness ==
    /\ jpc # "idle"
    /\ add_call = [via |-> "add_generator", raised |-> "PoolClosed"]
    /\ Len(pending_jobs) > 0

\* C24: in a Ratelimiter of mode 'reject', limit(cost) returns False and
\* leaves the replenished balance as it is when that balance is less than
\* cost, and otherwise takes cost from it and returns True; the balance is
\* never negative and never above the larger of the allowance and the
\* starting balance, and limit never sleeps.
C24_RejectKeepsBalanceInRange ==
    ratelimiter.mode = "reject" =>
        /\ ratelimiter.balance >= 0
        /\ ratelimiter.balance <=
               Max(InBalanceUnits(ratelimiter, ratelimiter.allowance),
                   ratelimiter.starting_balance)
        /\ limited.called =>
               /\ limited.sleep_needed = 0
               /\ limited.success = (limited.replenished >= InBalanceUnits(ratelimiter, limited.cost))
               /\ ratelimiter.balance =
                      IF limited.success
                      THEN limited.replenished - InBalanceUnits(ratelimiter, limited.cost)
                      ELSE limited.replenished

\* how many times the task was run
TimesRun(task) == Cardinality({i \in 1..Len(actions') : actions'[i].task = task})

\* the step in which the innermost @atomic method raises
MethodRaises ==
    /\ Len(frames') < Len(frames)
    /\ \E t \in THREADS : tpc[t] = "transaction" /\ traised'[t] = "MethodError"

\* C22: when a method decorated with @atomic raises, the rows, savepoints
\* and on_commit_queue are afterwards what they were before the call, every
\* rollback action queued during the call has been run once, and the
\* transaction is still open and owned by the same thread.
C22_AtomicRollsBackToSavepoint ==
    [][MethodRaises =>
          LET frame == frames[Len(frames)]
              during == {i \in Len(frame.on_rollback_queue) + 1..Len(on_rollback_queue) :
                            ~IsInt(on_rollback_queue[i])}
          IN  /\ savepoints' = frame.savepoints
              /\ on_commit_queue' = frame.on_commit_queue
              /\ sql'.rows = frame.rows
              /\ \A i \in during : TimesRun(on_rollback_queue[i]) = 1
              /\ sql'.active
              /\ transaction_lock'
              /\ transaction_owner' = transaction_owner
              /\ tpc'[transaction_owner] = "transaction"]_vars

\* the threads inside a transaction: begin has returned, commit or the
\* full rollback has not been called yet
InTransaction == {t \in THREADS : tpc[t] = "transaction"}

\* C23: at most one thread at a time is inside a transaction, it is the
\* _worms_transaction_owner, no other thread gets past the lock of begin
\* meanwhile, and a begin of the owning thread never waits for the lock.
C23_OneTransactionAtATime ==
    /\ Cardinality(InTransaction) <= 1
    /\ \A t \in InTransaction :
           /\ transaction_owner = t
           /\ locked(transaction_lock)
           /\ \A u \in THREADS \ {t} : tpc[u] \in {"idle", "acquire"}
    /\ \A t \in THREADS : tpc[t] = "acquire" => transaction_owner # t

\* one thread is inside its second transaction and has called begin again,
\* which returned at once with the error of sqlite, while the other thread
\* waits for the lock
C23_Witness ==
    /\ tpc = <<"acquire", "transaction">>
    /\ transaction_owner = 2
    /\ traised[2] = "OperationalError"
    /\ transactions = 2

\* C25: a rollback action that was run had been queued during the
\* transaction that was rolled back, never during one committed before.
C25_CommittedRollbackActionsNeverRun ==
    \A i \in 1..Len(actions) :
        actions[i].task.kind = "on_rollback" => actions[i].task.txn = actions[i].during

\* C26: in a tree returned by parse the root has no parent, and every
\* child of every node of the tree has that node as its parent.
C26_ParentLinksConsistent ==
    (pc \in {"parsed", "parsed_tokens"} /\ error = "none") =>
        /\ heap[root].parent = 0
        /\ \A n \in TreeNodes(heap, root) :
               \A k \in 1..Len(heap[n].children) : heap[heap[n].children[k]].parent = n

\* a parenthesized group was merged into the operator before it: the root
\* has three children, and the root of the group is left out of the tree
C26_Witness ==
    /\ pc = "parsed"
    /\ error = "none"
    /\ Len(heap[root].children) = 3
    /\ \E k \in 1..Len(tokens) : tokens[k].kind = "list"
    /\ Len(heap) > Cardinality(TreeNodes(heap, root))

\* C27: tokenize terminates: the while loop of implied_tokens on a token and
\* the while loop of order_operations, once entered, are always left, and
\* order_operations never reads tokens[index] with a negative index.
C27_ReadIndex == scan.loop = "order" /\ scan.index < Len(scan.tokens) => scan.index >= 0

C27_TokenizeTerminates ==
    /\ []C27_ReadIndex
    /\ (scan.loop \in RUNNING) ~> (scan.loop \in LEFT)

\* order_operations has collapsed a slice of a flat query, rewound its index
\* and left its loop
C27_Witness ==
    /\ scan.loop = "ordered"
    /\ \A k \in 1..Len(expression) : expression[k] \notin {"(", ")"}
    /\ Len(scan.tokens) >= 3
    /\ \E i \in 1..Len(scan.tokens) : scan.tokens[i].kind = "list"

====
